---- MODULE Spec2Model ----
(***************************************************************************)
(* Record store of the diagram list application (src/Program.py): the      *)
(* spreadsheet backing file, the sentinel write lock, and the handlers     *)
(* that load, change and save the table.                                   *)
(*                                                                         *)
(* Strings are sequences of one-character strings, so that strip, isdigit, *)
(* to_numeric and str() are computed and not assumed.                      *)
(***************************************************************************)
EXTENDS Integers, Sequences, FiniteSets, TLC

(* ------------------------------------------------------------------ *)
(* Bounds of the model                                                 *)
(* ------------------------------------------------------------------ *)
\* retries values a direct caller of acquire_lock passes: 0..MaxRetries
MaxRetries == 3
\* direct acquire_lock and release_lock calls in one run of LockSpec
MaxCalls == 4

\* handlers started in one run of Spec
MaxOps == 2

\* retries=5 of save_excel_with_lock, passed on to acquire_lock
SaveRetries == 5

Procs == {1, 2}

(* ------------------------------------------------------------------ *)
(* Strings                                                             *)
(* ------------------------------------------------------------------ *)
DigitChar == <<"0", "1", "2", "3", "4", "5", "6", "7", "8", "9">>
Digits == {DigitChar[i] : i \in 1..10}
Whitespace == {" "}

DigitVal(c) == CHOOSE d \in 0..9 : DigitChar[d + 1] = c

\* characters str.isdigit() accepts that are not decimal digits, such as
\* the superscript two, written "sup2" here
OtherDigits == {"sup2"}

\* a text pd.to_numeric reads as a whole number: decimal digits only
IsDecimal(s) == Len(s) > 0 /\ \A i \in 1..Len(s) : s[i] \in Digits

\* str.isdigit(): non-empty and every character a digit
IsDigit(s) == Len(s) > 0 /\ \A i \in 1..Len(s) : s[i] \in Digits \cup OtherDigits

RECURSIVE LStrip(_)
LStrip(s) == IF Len(s) > 0 /\ s[1] \in Whitespace THEN LStrip(Tail(s)) ELSE s

RECURSIVE RStrip(_)
RStrip(s) ==
    IF Len(s) > 0 /\ s[Len(s)] \in Whitespace
    THEN RStrip(SubSeq(s, 1, Len(s) - 1))
    ELSE s

\* str.strip()
Strip(s) == RStrip(LStrip(s))

RECURSIVE StrToNat(_)
StrToNat(s) ==
    IF Len(s) = 0 THEN 0
    ELSE StrToNat(SubSeq(s, 1, Len(s) - 1)) * 10 + DigitVal(s[Len(s)])

RECURSIVE NatToStr(_)
NatToStr(n) ==
    IF n < 10 THEN <<DigitChar[n + 1]>>
    ELSE NatToStr(n \div 10) \o <<DigitChar[(n % 10) + 1]>>

(* ------------------------------------------------------------------ *)
(* Cells, rows and tables (pandas DataFrame, spreadsheet)              *)
(* ------------------------------------------------------------------ *)
KeyCol == "Search No"
RefCol == "Reference model"
ModelCol == "Model Name"

\* a cell is text, a number (int64 or float64 column) or NaN
StrCell(s) == [t |-> "str", s |-> s, n |-> 0]
IntCell(n) == [t |-> "int", s |-> <<>>, n |-> n]
FloatCell(n) == [t |-> "float", s |-> <<>>, n |-> n]
NaNCell == [t |-> "nan", s |-> <<>>, n |-> 0]

Range(f) == {f[i] : i \in DOMAIN f}
EmptyTable(cols) == [cols |-> cols, rows |-> <<>>]
NoFile == [exists |-> FALSE, cols |-> <<>>, rows |-> <<>>]

\* what read_excel(dtype=str).fillna("") makes of a stored cell: an integral
\* number is read as an int and turned into its decimal text, an empty cell
\* is NaN and filled with ""
CellText(c) ==
    CASE c.t = "str" -> c.s
      [] c.t \in {"int", "float"} -> NatToStr(c.n)
      [] OTHER -> <<>>

\* pd.read_excel(path, dtype=str).fillna("")
read_excel(f) ==
    [cols |-> f.cols,
     rows |-> [i \in DOMAIN f.rows |->
                 [c \in Range(f.cols) |-> StrCell(CellText(f.rows[i][c]))]]]

\* df[COLUMNS] raises KeyError unless every schema column is in df
HasColumns(df, columns) == \A i \in DOMAIN columns : columns[i] \in Range(df.cols)

\* a write that keeps every column of the frame
WriteAllColumns(df, columns) ==
    [exists |-> TRUE, cols |-> df.cols, rows |-> df.rows]
\* df[COLUMNS].to_excel(path, index=False): exactly the schema's columns, in
\* the schema's order
to_excel(df, columns) ==
    [exists |-> TRUE, cols |-> columns,
     rows |-> [i \in DOMAIN df.rows |-> [c \in Range(columns) |-> df.rows[i][c]]]]

StripCell(c) == IF c.t = "str" THEN StrCell(Strip(c.s)) ELSE c

\* a load that returns the file's own columns
LoadFileColumns(f, columns) ==
    IF ~f.exists THEN EmptyTable(columns)
    ELSE LET d == read_excel(f) IN
         [cols |-> d.cols,
          rows |-> [i \in DOMAIN d.rows |-> [c \in Range(d.cols) |-> StripCell(d.rows[i][c])]]]
\* load_excel(): the schema's columns, a missing one as "", every text stripped
load_excel(f, columns) ==
    IF ~f.exists THEN EmptyTable(columns)
    ELSE LET d == read_excel(f) IN
         [cols |-> columns,
          rows |-> [i \in DOMAIN d.rows |->
                      [c \in Range(columns) |->
                         IF c \in Range(d.cols) THEN StripCell(d.rows[i][c])
                         ELSE StrCell(<<>>)]]]

\* the number pd.to_numeric(errors="coerce") finds in a cell, -1 for NaN
ParseKey(c) ==
    CASE c.t \in {"int", "float"} -> c.n
      [] c.t = "str" /\ IsDecimal(Strip(c.s)) -> StrToNat(Strip(c.s))
      [] OTHER -> -1

\* pd.to_numeric(df["Search No"], errors="coerce").fillna(0): the column is
\* int64 when every cell parses, float64 as soon as one is NaN
to_numeric(rows) ==
    LET isFloat == \E i \in DOMAIN rows :
                      rows[i][KeyCol].t = "float" \/ ParseKey(rows[i][KeyCol]) = -1
        num(c) == LET v == ParseKey(c) IN
                  IF isFloat THEN FloatCell(IF v = -1 THEN 0 ELSE v) ELSE IntCell(v)
    IN [i \in DOMAIN rows |-> [rows[i] EXCEPT ![KeyCol] = num(@)]]

\* insertion of one row after the last row whose key is not greater
RECURSIVE InsertSorted(_, _)
InsertSorted(sorted, r) ==
    IF Len(sorted) = 0 THEN <<r>>
    ELSE IF sorted[Len(sorted)][KeyCol].n <= r[KeyCol].n THEN Append(sorted, r)
    ELSE Append(InsertSorted(SubSeq(sorted, 1, Len(sorted) - 1), r), sorted[Len(sorted)])

RECURSIVE SortRows(_)
SortRows(rows) ==
    IF Len(rows) = 0 THEN <<>>
    ELSE InsertSorted(SortRows(SubSeq(rows, 1, Len(rows) - 1)), rows[Len(rows)])

\* a sort step left out
KeepOrder(rows) == rows
\* df.sort_values("Search No") on the numeric column (numpy sorts the short
\* arrays of this model by insertion, which keeps equal keys in their order)
sort_values(rows) == SortRows(rows)

\* "Sort before saving": to_numeric, fillna(0), sort_values, reset_index
SortBeforeSaving(df) == [cols |-> df.cols, rows |-> sort_values(to_numeric(df.rows))]

RECURSIVE DigitPrefix(_)
DigitPrefix(s) ==
    IF Len(s) > 0 /\ s[1] \in Digits THEN <<s[1]>> \o DigitPrefix(Tail(s)) ELSE <<>>

\* the number a text of the view shows ("10", "10.0"), -1 for the "no
\* record" row (history)
ShownNumber(text) ==
    IF DigitPrefix(text) = <<>> THEN -1 ELSE StrToNat(DigitPrefix(text))

\* str() of a key as the tree shows it
KeyText(c) ==
    CASE c.t = "str" -> c.s
      [] c.t = "int" -> NatToStr(c.n)
      [] c.t = "float" -> NatToStr(c.n) \o <<".", "0">>
      [] OTHER -> <<"n", "a", "n">>

\* DEFAULT_COLUMNS["english"], cut to the key, the second protected column
\* and one of the columns save_entry reads for the dropdown lists
DefaultColumns == <<KeyCol, RefCol, ModelCol>>
\* the two columns _remove_column refuses to remove
ProtectedColumns == {KeyCol, RefCol}

\* the text of the single row an empty table view shows
NoRecordFound == <<"-">>

\* the first value of every row refresh_table inserts: the key column is
\* made numeric and sorted unless the frame is empty
TreeOf(d) ==
    IF Len(d.rows) = 0 THEN <<NoRecordFound>>
    ELSE LET r == sort_values(to_numeric(d.rows)) IN
         [i \in DOMAIN r |-> KeyText(r[i][KeyCol])]

\* call[p]: op, the handler; df, the frame it passes to save_excel_with_lock;
\* wattempt and status, the write loop. History, for the properties only:
\* base, the backing file when the handler began; sel, the number of the
\* key the handler is about (-1: none); ref, the value typed into the form
NoCall == [op |-> "none", df |-> EmptyTable(<<>>), wattempt |-> 0, status |-> "none",
           base |-> NoFile, sel |-> -1, ref |-> <<>>]

\* the value of a variable in the specifications that do not use it
Unused == <<>>

\* ld: site, the place of the program that loads; attempt, the attempts
\* that failed so far; refused, how many more reads the environment
\* refuses; result and table, how the load ended; left, loads still to start
NoLoad == [site |-> "none", attempt |-> 0, refused |-> 0, result |-> "none",
           table |-> EmptyTable(<<>>), lastError |-> FALSE, left |-> 0]

\* the columns with a checklist filter, in the order of self.filters
ChecklistColumns == <<RefCol, ModelCol>>
\* flt: index, the row labels of self.df; key, the text of the key filter;
\* values and selected, of every checklist; shown, the labels of the rows
\* on display. History, for the properties only: F0, the filter state the
\* last apply_filters began with; raised, whether it ended by an exception;
\* calls, whether it was called at all
NoFilters == [index |-> <<>>, key |-> <<>>,
              values |-> [c \in Range(ChecklistColumns) |-> <<>>],
              selected |-> [c \in Range(ChecklistColumns) |-> {}],
              shown |-> {},
              F0 |-> [key |-> <<>>, selected |-> [c \in Range(ChecklistColumns) |-> {}]],
              raised |-> FALSE, calls |-> FALSE]

\* doc: exists and listing, the document directory and the names
\* os.listdir gives; keys, the keys on record; left, handlers still to run.
\* History, for the properties only: last, the last handler, its key, its
\* outcome and the path find_pdf returned
NoDocs == [exists |-> TRUE, listing |-> <<>>, keys |-> {}, left |-> 0,
           last |-> [op |-> "none", key |-> <<>>, result |-> "none", path |-> <<>>]]

\* time.time() when the watcher starts, in seconds: far above the debounce
StartClock == 5
\* a file system event: event.is_directory, basename of event.src_path
NoEvent == [is_directory |-> FALSE, name |-> <<>>]
\* watch: now, the clock; last_update, of the ExcelHandler; posted, the
\* callbacks handed to the UI thread and not yet run; ui, a table refresh
\* of the UI thread between its two reads of COLUMNS; left and writes,
\* events and external writes still to come. History, for the properties
\* only: ev, the last event, and reacted, whether it was reacted to
NoWatch == [now |-> StartClock, last_update |-> 0, posted |-> <<>>,
            ui |-> [running |-> FALSE, cols |-> <<>>],
            left |-> 0, writes |-> 0,
            ev |-> NoEvent, reacted |-> FALSE]

(* ------------------------------------------------------------------ *)
(* The sentinel write lock                                             *)
(* ------------------------------------------------------------------ *)
VARIABLES
    lockFile,   \* 0: the sentinel is absent; p: it exists, created by p
                \* (the creator is history: the code reads presence only)
    pc,         \* pc[p]: where process p stands
    acq,        \* acq[p]: the running acquire_lock call of p
    unit,       \* unit[p]: results of direct lock calls (LockSpec)
    file,       \* the backing spreadsheet at EXCEL_PATH
    columnsFile,\* columns.json: the persisted "english" list
    COLUMNS,    \* COLUMNS[p]: the schema list in the memory of process p
    df,         \* df[p]: self.df, the in-memory table of process p
    tree,       \* tree[p]: first value of every row the table view shows
    call,       \* call[p]: the handler p is running and the frame it saves
    outcome,    \* outcome[p]: how the last handler of p ended
    opsLeft,    \* handlers the model still starts
    ld,         \* the load that runs or ran last (LoadSpec)
    watch,      \* the change watcher and the UI callbacks it posted (WatchSpec)
    flt,        \* the filter widgets and the rows they let through (FilterSpec)
    doc,        \* the document directory and the keys on record (DocSpec)
    schema,     \* the column lists in both languages (SchemaSpec)
    config      \* the configured backing file and what refers to it (ConfigSpec)

lockVars == <<lockFile, pc, acq, unit>>
storeVars == <<file, columnsFile, COLUMNS, df, tree, call, outcome, opsLeft>>
extVars == <<ld, watch, flt, doc, schema, config>>
vars == <<lockFile, pc, acq, unit, file, columnsFile, COLUMNS, df, tree, call, outcome, opsLeft,
          ld, watch, flt, doc, schema, config>>

\* os.path.exists(LOCK_FILE)
LockExists(lock) == lock # 0

\* open(LOCK_FILE, "w") would succeed whether or not the file exists
CreateTruncating(lock) == TRUE
\* open(LOCK_FILE, "x") succeeds only when the file does not exist
CreateExclusive(lock) == lock = 0

\* range(retries + 1)
LoopOffByOne(attempt, retries) == attempt <= retries
\* for attempt in range(retries): the loop goes on while attempt < retries
LoopContinues(attempt, retries) == attempt < retries

\* a release that removes without the exists check and lets the error out
ReleaseRaising(lock) == [lock |-> 0, raised |-> lock = 0]
\* release_lock(): remove the sentinel if present, swallow every error
release_lock(lock) == [lock |-> 0, raised |-> FALSE]

NoAcq == [retries |-> 0, attempt |-> 0, seen |-> 0]

\* acquire_lock(retries, delay) is entered
AcquireEnter(p, retries) ==
    /\ acq' = [acq EXCEPT ![p] = [retries |-> retries, attempt |-> 0, seen |-> 0]]
    /\ pc' = [pc EXCEPT ![p] = IF LoopContinues(0, retries) THEN "acq_check" ELSE "acq_false"]

\* one attempt ends without the lock: time.sleep(delay), next attempt
NextAttempt(p, sawLock) ==
    LET a == acq[p].attempt + 1 IN
    /\ acq' = [acq EXCEPT ![p].attempt = a,
                          ![p].seen = @ + (IF sawLock THEN 1 ELSE 0)]
    /\ pc' = [pc EXCEPT ![p] = IF LoopContinues(a, acq[p].retries)
                               THEN "acq_check" ELSE "acq_false"]

\* if not os.path.exists(LOCK_FILE)
AcqCheck(p) ==
    /\ UNCHANGED extVars
    /\ pc[p] = "acq_check"
    /\ IF LockExists(lockFile)
       THEN NextAttempt(p, TRUE)
       ELSE /\ pc' = [pc EXCEPT ![p] = "acq_create"]
            /\ UNCHANGED acq
    /\ UNCHANGED lockFile

\* with open(LOCK_FILE, "x"): return True; FileExistsError: popup, sleep
AcqCreate(p) ==
    /\ UNCHANGED extVars
    /\ pc[p] = "acq_create"
    /\ IF CreateExclusive(lockFile)
       THEN /\ lockFile' = p
            /\ pc' = [pc EXCEPT ![p] = "acq_true"]
            /\ UNCHANGED acq
       ELSE /\ NextAttempt(p, LockExists(lockFile))
            /\ UNCHANGED lockFile

(* ------------------------------------------------------------------ *)
(* LockSpec: acquire_lock and release_lock called directly, in any     *)
(* order, by two callers on the same sentinel                          *)
(* ------------------------------------------------------------------ *)
\* unit.hist[p]: the calls of p that returned, oldest first; unit.holds[p]:
\* p got True and release_lock has not removed a sentinel since
NoUnit == [calls |-> 0,
           hist |-> [p \in Procs |-> <<>>],
           holds |-> [p \in Procs |-> FALSE]]

UnitAcquire(p) ==
    /\ UNCHANGED extVars
    /\ pc[p] = "idle"
    /\ unit.calls < MaxCalls
    /\ \E r \in 0..MaxRetries : AcquireEnter(p, r)
    /\ unit' = [unit EXCEPT !.calls = @ + 1]
    /\ UNCHANGED <<lockFile, storeVars>>

UnitAcquireStep(p) ==
    /\ AcqCheck(p) \/ AcqCreate(p)
    /\ unit' = [unit EXCEPT !.holds[p] = pc'[p] = "acq_true"]
    /\ UNCHANGED storeVars

UnitAcquireReturn(p) ==
    /\ UNCHANGED extVars
    /\ pc[p] \in {"acq_true", "acq_false"}
    /\ pc' = [pc EXCEPT ![p] = "idle"]
    /\ unit' = [unit EXCEPT !.hist[p] =
                  Append(@, [res |-> pc[p], retries |-> acq[p].retries,
                             attempts |-> acq[p].attempt, raised |-> FALSE])]
    /\ UNCHANGED <<lockFile, acq, storeVars>>

UnitRelease(p) ==
    /\ UNCHANGED extVars
    /\ pc[p] = "idle"
    /\ unit.calls < MaxCalls
    /\ LET r == release_lock(lockFile) IN
        /\ lockFile' = r.lock
        /\ unit' = [calls |-> unit.calls + 1,
                    hist |-> [unit.hist EXCEPT ![p] =
                                Append(@, [res |-> "released", retries |-> 0,
                                           attempts |-> 0, raised |-> r.raised])],
                    holds |-> IF lockFile' # lockFile THEN [q \in Procs |-> FALSE]
                              ELSE unit.holds]
    /\ UNCHANGED <<pc, acq, storeVars>>

LockInit ==
    /\ lockFile = 0
    /\ pc = [p \in Procs |-> "idle"]
    /\ acq = [p \in Procs |-> NoAcq]
    /\ unit = NoUnit
    /\ file = NoFile
    /\ columnsFile = DefaultColumns
    /\ COLUMNS = [p \in Procs |-> DefaultColumns]
    /\ df = [p \in Procs |-> EmptyTable(DefaultColumns)]
    /\ tree = [p \in Procs |-> <<NoRecordFound>>]
    /\ call = [p \in Procs |-> NoCall]
    /\ outcome = [p \in Procs |-> "none"]
    /\ opsLeft = 0
    /\ ld = Unused
    /\ watch = Unused
    /\ flt = Unused
    /\ doc = Unused
    /\ schema = Unused
    /\ config = Unused

LockNext ==
    \E p \in Procs :
        \/ UnitAcquire(p)
        \/ UnitAcquireStep(p)
        \/ UnitAcquireReturn(p)
        \/ UnitRelease(p)

LockSpec == LockInit /\ [][LockNext]_vars

Last(seq) == seq[Len(seq)]

\* C1: of two callers of acquire_lock on the same sentinel at most one has
\* got True since release_lock last removed the sentinel, and the sentinel
\* that exists is the one this caller created: a second caller gets True
\* only after a release.
C1_MutualExclusion ==
    \A p, q \in Procs :
        unit.holds[p] => lockFile = p /\ (unit.holds[q] => p = q)

\* caller 1 holds the lock while caller 2, which saw no sentinel at its
\* exists check, is about to create it
C1_Witness == unit.holds[1] /\ pc[2] = "acq_create" /\ lockFile = 1

\* C2: acquire_lock(retries, delay) makes at most `retries` attempts; it
\* returns False after exactly `retries` attempts, each of which found the
\* sentinel present, and True in the first attempt that finds it absent.
C2_AcquireBounded ==
    \A p \in Procs :
        /\ acq[p].attempt <= acq[p].retries
        /\ acq[p].seen = acq[p].attempt
        /\ pc[p] = "acq_false" => acq[p].attempt = acq[p].retries
        /\ pc[p] \in {"acq_check", "acq_create", "acq_true"} => acq[p].attempt < acq[p].retries
        /\ \A i \in DOMAIN unit.hist[p] :
              LET h == unit.hist[p][i] IN
              /\ h.res = "acq_false" => h.attempts = h.retries
              /\ h.res = "acq_true" => h.attempts < h.retries

\* a caller got True, then False after 3 attempts on the unreleased
\* sentinel, released, and got True again in its first attempt
C2_Witness ==
    \E p \in Procs :
        /\ Len(unit.hist[p]) = 4
        /\ unit.hist[p][1].res = "acq_true"
        /\ unit.hist[p][2] = [res |-> "acq_false", retries |-> 3, attempts |-> 3, raised |-> FALSE]
        /\ unit.hist[p][3].res = "released"
        /\ unit.hist[p][4] = [res |-> "acq_true", retries |-> 3, attempts |-> 0, raised |-> FALSE]

\* the step in which release_lock, called by p, returns
ReleaseReturns(p) ==
    /\ Len(unit'.hist[p]) = Len(unit.hist[p]) + 1
    /\ Last(unit'.hist[p]).res = "released"

\* C3: release_lock leaves the sentinel absent and never raises; on an
\* absent sentinel it changes nothing, so two calls leave what one leaves.
C3_ReleaseIdempotent ==
    [][\A p \in Procs :
          ReleaseReturns(p) =>
              /\ lockFile' = 0
              /\ ~Last(unit'.hist[p]).raised
              /\ lockFile = 0 => UNCHANGED <<lockFile, pc, acq, storeVars>>]_vars

\* a caller acquired the lock and released it twice in a row
C3_Witness ==
    \E p \in Procs :
        /\ Len(unit.hist[p]) = 3
        /\ unit.hist[p][1].res = "acq_true"
        /\ unit.hist[p][2].res = "released"
        /\ unit.hist[p][3].res = "released"
        /\ \A q \in Procs \ {p} : unit.hist[q] = <<>> /\ pc[q] = "idle"
        /\ lockFile = 0

(* ------------------------------------------------------------------ *)
(* save_excel_with_lock                                                *)
(* ------------------------------------------------------------------ *)
\* a handler calls save_excel_with_lock(d): acquire_lock(retries, delay)
\* save_excel(df), the writer without a lock
EnterUnlocked(p) ==
    /\ pc' = [pc EXCEPT ![p] = "write"]
    /\ UNCHANGED acq
\* if not acquire_lock(retries, delay)
EnterLocked(p) == AcquireEnter(p, SaveRetries)

SaveEnter(p, op, d, base, sel, ref) ==
    /\ call' = [call EXCEPT ![p] = [op |-> op, df |-> d, wattempt |-> 0, status |-> "none",
                                    base |-> base, sel |-> sel, ref |-> ref]]
    /\ EnterLocked(p)

\* a failed acquisition that goes on into the guarded section
ProceedWithoutLock(p) == "acq_true"
\* if not acquire_lock(...): raise, before the try and so without release
AfterLockFailure(p) == "idle"

\* an acquisition inside the try block: its failure runs finally
ReleaseAfterFailure(lock) == release_lock(lock).lock
\* the raise comes before the try: release_lock is not called
SentinelAfterFailure(lock) == lock

\* acquire_lock returned False: the exception reaches the handler's except
SaveLockFail(p) ==
    /\ UNCHANGED extVars
    /\ pc[p] = "acq_false"
    /\ pc' = [pc EXCEPT ![p] = AfterLockFailure(p)]
    /\ lockFile' = SentinelAfterFailure(lockFile)
    /\ outcome' = [outcome EXCEPT ![p] = "lock_failed"]
    /\ call' = [call EXCEPT ![p] = IF pc'[p] = "idle" THEN NoCall ELSE @]
    /\ UNCHANGED <<acq, unit, file, columnsFile, COLUMNS, df, tree, opsLeft>>

\* makedirs and the refresh read of the latest file; a read error leaves
\* through finally
SaveRefresh(p) ==
    /\ UNCHANGED extVars
    /\ pc[p] = "acq_true"
    /\ \E readError \in BOOLEAN :
        /\ readError => file.exists
        /\ IF readError
           THEN /\ pc' = [pc EXCEPT ![p] = "finally"]
                /\ call' = [call EXCEPT ![p].status = "read_error"]
           ELSE /\ pc' = [pc EXCEPT ![p] = "write"]
                /\ UNCHANGED call
    /\ UNCHANGED <<lockFile, acq, unit, file, columnsFile, COLUMNS, df, tree, outcome, opsLeft>>

\* for attempt in range(retries): try to_excel, return True; except
\* PermissionError: sleep. denied[a + 1] tells whether attempt a is refused.
\* The result is how the loop ends and after how many refused attempts.
\* how many write attempts in a row the viewer refuses: none, one, all
RefusedWrites == {0, 1, SaveRetries}

RECURSIVE WriteLoop(_, _, _)
WriteLoop(attempt, retries, denied) ==
    IF ~LoopContinues(attempt, retries) THEN [ok |-> FALSE, attempts |-> attempt]
    ELSE IF denied[attempt + 1] THEN WriteLoop(attempt + 1, retries, denied)
    ELSE [ok |-> TRUE, attempts |-> attempt]

\* the write loop of save_excel_with_lock: df[COLUMNS] raises KeyError when
\* the frame lacks a schema column; a refused attempt changes nothing and
\* only sleeps, so the loop is one step, in which the first n attempts are
\* refused (the file is open in a viewer)
SaveWrite(p) ==
    /\ UNCHANGED extVars
    /\ pc[p] = "write"
    /\ pc' = [pc EXCEPT ![p] = "finally"]
    /\ IF ~HasColumns(call[p].df, COLUMNS[p])
       THEN /\ call' = [call EXCEPT ![p].status = "key_error"]
            /\ UNCHANGED file
       ELSE \E n \in RefusedWrites :
            /\ n > 0 => file.exists
            /\ LET w == WriteLoop(0, SaveRetries, [a \in 1..SaveRetries |-> a <= n]) IN
               /\ call' = [call EXCEPT ![p].wattempt = w.attempts,
                                       ![p].status = IF w.ok THEN "ok" ELSE "write_error"]
               /\ file' = IF w.ok THEN to_excel(call[p].df, COLUMNS[p]) ELSE file
    /\ UNCHANGED <<lockFile, acq, unit, columnsFile, COLUMNS, df, tree, outcome, opsLeft>>

\* a release only after a successful write
ReleaseOnSuccessOnly(p, lock) == IF call[p].status = "ok" THEN 0 ELSE lock
\* finally: release_lock()
FinallyRelease(p, lock) == release_lock(lock).lock

\* finally: release_lock(), then the rest of the handler: after a save that
\* returned True the handler adopts the frame and refreshes the view, after
\* an exception it reports and returns
SaveFinally(p) ==
    /\ UNCHANGED extVars
    /\ pc[p] = "finally"
    /\ lockFile' = FinallyRelease(p, lockFile)
    /\ pc' = [pc EXCEPT ![p] = "idle"]
    /\ call' = [call EXCEPT ![p] = NoCall]
    /\ IF call[p].status = "ok"
       THEN /\ outcome' = [outcome EXCEPT ![p] = "saved"]
            /\ df' = [df EXCEPT ![p] = IF call[p].op \in {"add", "edit"} THEN call[p].df ELSE @]
            /\ tree' = [tree EXCEPT ![p] = TreeOf(df'[p])]
       ELSE /\ outcome' = [outcome EXCEPT ![p] = call[p].status]
            /\ UNCHANGED <<df, tree>>
    /\ UNCHANGED <<acq, unit, file, columnsFile, COLUMNS, opsLeft>>

\* the process stops while it holds the sentinel
Crash(p) ==
    /\ UNCHANGED extVars
    /\ pc[p] = "write"
    /\ lockFile = p
    /\ pc' = [pc EXCEPT ![p] = "crashed"]
    /\ UNCHANGED <<lockFile, acq, unit, storeVars>>

\* somebody deletes the sentinel a stopped process left
OutOfBandRemove ==
    /\ UNCHANGED extVars
    /\ lockFile # 0
    /\ pc[lockFile] = "crashed"
    /\ lockFile' = 0
    /\ UNCHANGED <<pc, acq, unit, storeVars>>

(* ------------------------------------------------------------------ *)
(* The handlers that change the table                                  *)
(* ------------------------------------------------------------------ *)
\* keys of the rows the backing file holds at start: written by hand in
\* the spreadsheet, so neither sorted nor all numeric
InitKeys == {<<>>, <<<<"1", "0">>, <<"2">>>>, <<<<"1", "0">>, <<"a">>>>}
\* what the user types into the add form: the key entry takes digits only
AddKeys == {<<"1">>, <<"2">>}
RefInputs == {<<"Y">>}
ModelInput == <<"m">>

InitRow(k) == [c \in Range(DefaultColumns) |->
                 IF c = KeyCol THEN StrCell(k)
                 ELSE IF c = RefCol THEN StrCell(<<"X">>) ELSE StrCell(<<>>)]
InitFiles ==
    {NoFile} \cup
    {[exists |-> TRUE, cols |-> DefaultColumns, rows |-> [i \in DOMAIN ks |-> InitRow(ks[i])]] :
        ks \in InitKeys}

\* the latest file as save_entry and save_edited_entry read it
ReloadLatest(f, columns) == IF f.exists THEN read_excel(f) ELSE EmptyTable(columns)

\* columns of the schema the frame lacks, appended by concat and by .loc
WithSchemaColumns(cols, columns) ==
    cols \o SelectSeq(columns, LAMBDA c : c \notin Range(cols))

\* pd.concat([latest_df, pd.DataFrame([new_entry])], ignore_index=True)
concat(latest, columns, entry) ==
    LET cols == WithSchemaColumns(latest.cols, columns) IN
    [cols |-> cols,
     rows |-> Append([i \in DOMAIN latest.rows |->
                        [c \in Range(cols) |->
                           IF c \in Range(latest.cols) THEN latest.rows[i][c] ELSE NaNCell]],
                     [c \in Range(cols) |->
                        IF c \in Range(columns) THEN entry[c] ELSE NaNCell])]

\* latest_df.loc[idx, col] = value for every schema column
loc_assign(latest, columns, idx, entry) ==
    LET cols == WithSchemaColumns(latest.cols, columns) IN
    [cols |-> cols,
     rows |-> [i \in DOMAIN latest.rows |->
                 [c \in Range(cols) |->
                    IF i \in idx /\ c \in Range(columns) THEN entry[c]
                    ELSE IF c \in Range(latest.cols) THEN latest.rows[i][c] ELSE NaNCell]]]

FormEntry(columns, k, r) ==
    [c \in Range(columns) |->
        IF c = KeyCol THEN StrCell(k)
        ELSE IF c = RefCol THEN StrCell(r) ELSE StrCell(ModelInput)]

Reject(p, why) ==
    /\ outcome' = [outcome EXCEPT ![p] = why]
    /\ UNCHANGED <<lockFile, pc, acq, unit, file, columnsFile, COLUMNS, df, tree, call>>

\* a handler that saves the frame it holds in memory
UseMemory(p, f) == df[p]
\* save_entry: "Reload latest Excel"
AddBase(p, f) == ReloadLatest(f, COLUMNS[p])

\* save_entry(win, fields, pdf_var) with key k and a chosen document
save_entry(p, k, r) ==
    /\ UNCHANGED extVars
    /\ pc[p] = "idle"
    /\ opsLeft > 0
    /\ opsLeft' = opsLeft - 1
    /\ LET latest == AddBase(p, file)
           search_no == Strip(k)
       IN
       IF Len(k) = 0 THEN Reject(p, "required_error")
       ELSE IF \E i \in DOMAIN latest.rows : Strip(CellText(latest.rows[i][KeyCol])) = search_no
       THEN Reject(p, "duplicate_error")
       ELSE IF ModelCol \notin Range(COLUMNS[p])
       THEN Reject(p, "key_error")
       ELSE /\ SaveEnter(p, "add",
                         SortBeforeSaving(concat(latest, COLUMNS[p], FormEntry(COLUMNS[p], k, r))),
                         file,
                         IF IsDecimal(search_no) THEN StrToNat(search_no) ELSE 0, r)
            /\ UNCHANGED <<lockFile, unit, file, columnsFile, COLUMNS, df, tree, outcome>>

\* save_edited_entry: "Reload latest Excel before editing"
EditBase(p, f) == ReloadLatest(f, COLUMNS[p])

\* edit_selected_row on row i of the view, then save_edited_entry: the key
\* entry is disabled and holds the text the view shows
save_edited_entry(p, i, r) ==
    /\ UNCHANGED extVars
    /\ pc[p] = "idle"
    /\ opsLeft > 0
    /\ opsLeft' = opsLeft - 1
    /\ i \in DOMAIN tree[p]
    /\ LET original_search_no == tree[p][i]
           latest == EditBase(p, file)
           idx == {j \in DOMAIN latest.rows : latest.rows[j][KeyCol] = StrCell(original_search_no)}
           search_no_val == Strip(original_search_no)
       IN
       IF idx = {} THEN Reject(p, "not_found_error")
       ELSE IF ~IsDigit(search_no_val) THEN Reject(p, "search_no_numeric_error")
       ELSE /\ SaveEnter(p, "edit",
                         SortBeforeSaving(loc_assign(latest, COLUMNS[p], idx,
                                                     FormEntry(COLUMNS[p], search_no_val, r))),
                         file, ShownNumber(search_no_val), r)
            /\ UNCHANGED <<lockFile, unit, file, columnsFile, COLUMNS, df, tree, outcome>>

\* delete_selected_row on row i of the view: the rows of self.df whose key
\* equals the shown text are dropped in place and self.df is saved
delete_selected_row(p, i) ==
    /\ UNCHANGED extVars
    /\ pc[p] = "idle"
    /\ opsLeft > 0
    /\ opsLeft' = opsLeft - 1
    /\ i \in DOMAIN tree[p]
    /\ LET search_no == tree[p][i]
           kept == SelectSeq(df[p].rows, LAMBDA row : row[KeyCol] # StrCell(search_no))
       IN
       /\ df' = [df EXCEPT ![p].rows = kept]
       /\ SaveEnter(p, "delete", df'[p], file, ShownNumber(search_no), <<>>)
    /\ UNCHANGED <<lockFile, unit, file, columnsFile, COLUMNS, tree, outcome>>

InsertAt(seq, idx, x) == SubSeq(seq, 1, idx) \o <<x>> \o SubSeq(seq, idx + 1, Len(seq))

\* on_submit of the add-column popup, for the column name eng_name
add_column(p, eng_name) ==
    /\ UNCHANGED extVars
    /\ pc[p] = "idle"
    /\ opsLeft > 0
    /\ opsLeft' = opsLeft - 1
    /\ IF eng_name \in Range(COLUMNS[p]) THEN Reject(p, "column_exists")
       ELSE LET idx == Len(COLUMNS[p])
                columns == InsertAt(COLUMNS[p], idx, eng_name)
            IN
            /\ COLUMNS' = [COLUMNS EXCEPT ![p] = columns]
            /\ IF eng_name \in Range(df[p].cols) \/ idx > Len(df[p].cols)
               THEN \* self.df.insert raises: the except reports, nothing is saved
                    /\ outcome' = [outcome EXCEPT ![p] = "add_failed"]
                    /\ UNCHANGED <<lockFile, pc, acq, unit, file, columnsFile, df, tree, call>>
               ELSE /\ df' = [df EXCEPT ![p] =
                                [cols |-> InsertAt(df[p].cols, idx, eng_name),
                                 rows |-> [j \in DOMAIN df[p].rows |->
                                             [c \in Range(df[p].cols) \cup {eng_name} |->
                                                IF c = eng_name THEN StrCell(<<>>)
                                                ELSE df[p].rows[j][c]]]]]
                    /\ columnsFile' = columns
                    /\ SaveEnter(p, "addcol", df'[p], file, -1, <<>>)
                    /\ UNCHANGED <<lockFile, unit, file, tree, outcome>>

RemoveAt(seq, idx) == SubSeq(seq, 1, idx - 1) \o SubSeq(seq, idx + 1, Len(seq))

\* _remove_column on entry idx of the column list
remove_column(p, idx) ==
    /\ UNCHANGED extVars
    /\ pc[p] = "idle"
    /\ opsLeft > 0
    /\ opsLeft' = opsLeft - 1
    /\ idx \in DOMAIN COLUMNS[p]
    /\ LET eng_col == COLUMNS[p][idx] IN
       IF eng_col \in ProtectedColumns THEN Reject(p, "cannot_remove")
       ELSE /\ COLUMNS' = [COLUMNS EXCEPT ![p] = RemoveAt(COLUMNS[p], idx)]
            /\ IF eng_col \notin Range(df[p].cols)
               THEN \* self.df.drop raises KeyError
                    /\ outcome' = [outcome EXCEPT ![p] = "remove_failed"]
                    /\ UNCHANGED <<lockFile, pc, acq, unit, file, columnsFile, df, tree, call>>
               ELSE /\ df' = [df EXCEPT ![p] =
                                [cols |-> SelectSeq(df[p].cols, LAMBDA c : c # eng_col),
                                 rows |-> [j \in DOMAIN df[p].rows |->
                                             [c \in Range(df[p].cols) \ {eng_col} |->
                                                df[p].rows[j][c]]]]]
                    /\ columnsFile' = COLUMNS'[p]
                    /\ SaveEnter(p, "rmcol", df'[p], file, -1, <<>>)
                    /\ UNCHANGED <<lockFile, unit, file, tree, outcome>>

(* ------------------------------------------------------------------ *)
(* Spec: two running applications on one backing file                  *)
(* ------------------------------------------------------------------ *)
Init ==
    /\ lockFile = 0
    /\ pc = [p \in Procs |-> "idle"]
    /\ acq = [p \in Procs |-> NoAcq]
    /\ unit = NoUnit
    /\ file \in InitFiles
    /\ columnsFile = DefaultColumns
    /\ COLUMNS = [p \in Procs |-> DefaultColumns]
    /\ df = [p \in Procs |-> load_excel(file, DefaultColumns)]
    /\ tree = [p \in Procs |-> TreeOf(df[p])]
    /\ call = [p \in Procs |-> NoCall]
    /\ outcome = [p \in Procs |-> "none"]
    /\ opsLeft = MaxOps
    /\ ld = Unused
    /\ watch = Unused
    /\ flt = Unused
    /\ doc = Unused
    /\ schema = Unused
    /\ config = Unused

Next ==
    \/ \E p \in Procs :
        \/ \E k \in AddKeys, r \in RefInputs : save_entry(p, k, r)
        \/ \E i \in DOMAIN tree[p], r \in RefInputs : save_edited_entry(p, i, r)
        \/ \E i \in DOMAIN tree[p] : delete_selected_row(p, i)
        \/ add_column(p, ModelCol)
        \/ \E idx \in 1..Len(DefaultColumns) : remove_column(p, idx)
        \/ AcqCheck(p) /\ UNCHANGED <<unit, storeVars>>
        \/ AcqCreate(p) /\ UNCHANGED <<unit, storeVars>>
        \/ SaveLockFail(p)
        \/ SaveRefresh(p)
        \/ SaveWrite(p)
        \/ SaveFinally(p)
        \/ Crash(p)
    \/ OutOfBandRemove

Spec == Init /\ [][Next]_vars

(* ------------------------------------------------------------------ *)
(* Properties of the write lock around the save                        *)
(* ------------------------------------------------------------------ *)
Guarded == {"acq_true", "write", "finally"}

\* C4: whenever a process leaves the guarded section of
\* save_excel_with_lock by the end of the call (after a successful write, a
\* read error, exhausted write retries or a KeyError), the sentinel is
\* absent in the state the call ends in.
C4_GuaranteedRelease ==
    [][\A p \in Procs :
          pc[p] \in Guarded /\ pc'[p] \notin Guarded \cup {"crashed"} =>
              pc'[p] = "idle" /\ lockFile' = 0]_vars

\* one save ended by exhausted write retries and another one succeeded, and
\* no sentinel is left
C4_Witness ==
    \E p, q \in Procs :
        /\ outcome[p] = "write_error" /\ outcome[q] = "saved"
        /\ pc[p] = "idle" /\ pc[q] = "idle"
        /\ lockFile = 0

\* C5: when acquire_lock returned False the save ends with a failure for
\* its caller, in a step that changes neither the backing file nor the
\* sentinel, and the failing process has written nothing.
C5_LockFailureWritesNothing ==
    [][\A p \in Procs :
          pc[p] = "acq_false" /\ pc'[p] # "acq_false" =>
              /\ pc'[p] = "idle"
              /\ outcome'[p] = "lock_failed"
              /\ call[p].status = "none"
              /\ file' = file
              /\ lockFile' = lockFile]_vars

\* a save failed for the lock while the other process still holds the
\* sentinel inside its own save
C5_Witness ==
    \E p, q \in Procs :
        /\ outcome[p] = "lock_failed" /\ pc[p] = "idle"
        /\ lockFile = q /\ pc[q] = "write"

\* the sentinel of a process that stopped while holding it
StaleLock == lockFile # 0 /\ pc[lockFile] = "crashed"

\* C6: while the sentinel of a stopped process exists, only its removal
\* out-of-band takes it away, no process enters the guarded section and
\* the backing file is not written.
C6_StaleLockBlocks ==
    [][StaleLock =>
          /\ lockFile' # lockFile => OutOfBandRemove
          /\ file' = file
          /\ \A q \in Procs : pc'[q] \notin Guarded]_vars

\* after the holder stopped, a save of the other process failed for the lock
C6_Witness ==
    /\ StaleLock
    /\ \E q \in Procs : outcome[q] = "lock_failed" /\ pc[q] = "idle"

\* C7: a process inside the guarded section holds the sentinel, and every
\* change of the backing file is made by a process in its write loop that
\* holds the sentinel.
C7_WriteUnderLock ==
    [][/\ \A p \in Procs : pc[p] \in Guarded => lockFile = p
       /\ file' # file =>
             \E p \in Procs : pc[p] = "write" /\ pc'[p] = "finally" /\ lockFile = p]_vars

\* remove-column has written the backing file and still holds the sentinel
C7_Witness ==
    \E p \in Procs :
        /\ pc[p] = "finally" /\ call[p].op = "rmcol" /\ call[p].status = "ok"
        /\ lockFile = p /\ file # call[p].base

(* ------------------------------------------------------------------ *)
(* Properties of the saved table                                       *)
(* ------------------------------------------------------------------ *)
\* the number a key counts as in the sort: a failed parse is 0
KeyNumber(c) == IF ParseKey(c) = -1 THEN 0 ELSE ParseKey(c)

\* a record as load shows it, on the schema's columns, the key as a number
Record(row, cols, columns) ==
    [c \in Range(columns) |->
        IF c \notin Range(cols) THEN <<>>
        ELSE IF c = KeyCol THEN NatToStr(KeyNumber(row[c]))
        ELSE Strip(CellText(row[c]))]

Records(d, columns) == {Record(d.rows[i], d.cols, columns) : i \in DOMAIN d.rows}

\* the records of the backing file as it was when the handler of p began
BaseRecords(p) == Records(ReloadLatest(call[p].base, COLUMNS[p]), COLUMNS[p])
BaseCount(p) == Len(call[p].base.rows)

\* the record the form of p holds
FormRecord(p) ==
    Record(FormEntry(COLUMNS[p], NatToStr(call[p].sel), call[p].ref), COLUMNS[p], COLUMNS[p])

IsSelected(p, rec) == rec[KeyCol] = NatToStr(call[p].sel) /\ call[p].sel # -1

\* C8: the frame Add, Edit and Delete pass to the save is the backing file
\* as it was when the handler began, with the one record added, changed or
\* removed.
C8_SavesLatestPlusChange ==
    \A p \in Procs :
        pc[p] = "write" /\ HasColumns(call[p].df, COLUMNS[p]) =>
            LET saved == Records(call[p].df, COLUMNS[p])
                n == Len(call[p].df.rows)
            IN
            CASE call[p].op = "add" ->
                     saved = BaseRecords(p) \cup {FormRecord(p)} /\ n = BaseCount(p) + 1
              [] call[p].op = "edit" ->
                     /\ saved = {r \in BaseRecords(p) : ~IsSelected(p, r)} \cup {FormRecord(p)}
                     /\ n = BaseCount(p)
              [] call[p].op = "delete" /\ call[p].sel # -1 ->
                     /\ saved = {r \in BaseRecords(p) : ~IsSelected(p, r)}
                     /\ n = BaseCount(p) - 1
              [] OTHER -> TRUE

\* the rows of a stored table are in ascending order of their key numbers
Ascending(rows) ==
    \A i, j \in DOMAIN rows : i < j => KeyNumber(rows[i][KeyCol]) <= KeyNumber(rows[j][KeyCol])

\* C9: after a successful save of any handler the stored rows are in
\* ascending order of the key number, a key that is no number counting as 0.
C9_StoredSorted ==
    \A p \in Procs :
        pc[p] = "finally" /\ call[p].status = "ok" => Ascending(file.rows)

\* the column that carries a row's own key through the sort
OwnKey == "#"

\* the rows of frame d on the schema's columns, as texts, in ascending
\* order of the key number
SortedProjection(d, columns) ==
    LET tagged == [i \in DOMAIN d.rows |->
                     [c \in Range(d.cols) \cup {OwnKey} |->
                        IF c = OwnKey THEN d.rows[i][KeyCol] ELSE d.rows[i][c]]]
        sorted == sort_values(to_numeric(tagged))
    IN [cols |-> columns,
        rows |-> [i \in DOMAIN sorted |->
                    [c \in Range(columns) |->
                       IF c \notin Range(d.cols) THEN StrCell(<<>>)
                       ELSE IF c = KeyCol THEN StrCell(Strip(CellText(sorted[i][OwnKey])))
                       ELSE StrCell(Strip(CellText(sorted[i][c])))]]]

\* C10: load after a successful save of frame T returns the rows of T on
\* the schema's columns, in ascending order of the key number; load of an
\* absent file returns the empty table of the schema.
C10_RoundTrip ==
    \A p \in Procs :
        /\ pc[p] = "finally" /\ call[p].status = "ok" =>
              load_excel(file, COLUMNS[p]) = SortedProjection(call[p].df, COLUMNS[p])
        /\ ~file.exists => load_excel(file, COLUMNS[p]) = EmptyTable(COLUMNS[p])

(* ------------------------------------------------------------------ *)
(* LoadSpec: the places that read the backing file, with a file that   *)
(* refuses some reads (open in a viewer, half written)                 *)
(* ------------------------------------------------------------------ *)
MaxLoads == 2
\* for attempt in range(5) of safe_load_excel
SafeLoadRetries == 5

\* the places that load: DiagramApp.__init__ and save_settings call
\* load_excel, the watcher calls safe_load_excel, save_entry and
\* save_edited_entry call pd.read_excel themselves
LoadExcelSites == {"startup", "settings"}
SafeLoadSites == {"watcher"}
ReloadSites == {"add", "edit"}
\* how many reads in a row fail: none, one, more than safe_load_excel tries
ReadRefusals == {0, 1, SafeLoadRetries + 1}

LoadBegin(site, n) ==
    /\ UNCHANGED <<lockVars, storeVars, watch, flt, doc, schema, config>>
    /\ ld.result # "running"
    /\ ld.left > 0
    /\ n > 0 => file.exists
    /\ ld' = [site |-> site, attempt |-> 0, refused |-> n, result |-> "running",
              table |-> EmptyTable(<<>>), lastError |-> FALSE, left |-> ld.left - 1]

\* load_excel(): no file, the empty table; else one read_excel, whose error
\* is not caught
LoadExcel ==
    /\ UNCHANGED <<lockVars, storeVars, watch, flt, doc, schema, config>>
    /\ ld.result = "running" /\ ld.site \in LoadExcelSites
    /\ ld' = IF ld.refused > 0
             THEN [ld EXCEPT !.result = "raised", !.attempt = 1, !.lastError = TRUE,
                             !.refused = @ - 1]
             ELSE [ld EXCEPT !.result = "returned",
                             !.table = load_excel(file, COLUMNS[1])]

\* "Reload latest Excel" of save_entry and save_edited_entry: one read_excel
\* outside any try
Reload ==
    /\ UNCHANGED <<lockVars, storeVars, watch, flt, doc, schema, config>>
    /\ ld.result = "running" /\ ld.site \in ReloadSites
    /\ ld' = IF ld.refused > 0
             THEN [ld EXCEPT !.result = "raised", !.attempt = 1, !.lastError = TRUE,
                             !.refused = @ - 1]
             ELSE [ld EXCEPT !.result = "returned",
                             !.table = ReloadLatest(file, COLUMNS[1])]

\* one turn of the loop of safe_load_excel: read_excel with no exists check
\* (a missing file is an OSError), sleep on an error it catches, the empty
\* table after the last attempt
SafeLoadExcel ==
    /\ UNCHANGED <<lockVars, storeVars, watch, flt, doc, schema, config>>
    /\ ld.result = "running" /\ ld.site \in SafeLoadSites
    /\ ld' = IF ~LoopContinues(ld.attempt, SafeLoadRetries)
             THEN [ld EXCEPT !.result = "returned", !.table = EmptyTable(COLUMNS[1])]
             ELSE IF ld.refused > 0 \/ ~file.exists
             THEN [ld EXCEPT !.attempt = @ + 1, !.lastError = TRUE,
                             !.refused = IF @ > 0 THEN @ - 1 ELSE 0]
             ELSE [ld EXCEPT !.result = "returned", !.lastError = FALSE,
                             !.table = load_excel(file, COLUMNS[1])]

LoadInit ==
    /\ lockFile = 0
    /\ pc = [p \in Procs |-> "idle"]
    /\ acq = [p \in Procs |-> NoAcq]
    /\ unit = NoUnit
    /\ file \in InitFiles
    /\ columnsFile = DefaultColumns
    /\ COLUMNS = [p \in Procs |-> DefaultColumns]
    /\ df = [p \in Procs |-> EmptyTable(DefaultColumns)]
    /\ tree = [p \in Procs |-> <<NoRecordFound>>]
    /\ call = [p \in Procs |-> NoCall]
    /\ outcome = [p \in Procs |-> "none"]
    /\ opsLeft = 0
    /\ ld = [NoLoad EXCEPT !.left = MaxLoads]
    /\ watch = Unused
    /\ flt = Unused
    /\ doc = Unused
    /\ schema = Unused
    /\ config = Unused

LoadNext ==
    \/ \E site \in LoadExcelSites \cup SafeLoadSites \cup ReloadSites, n \in ReadRefusals :
           LoadBegin(site, n)
    \/ LoadExcel
    \/ Reload
    \/ SafeLoadExcel

LoadSpec == LoadInit /\ [][LoadNext]_vars

\* C11 (load): a load never raises: after a bounded number of attempts it
\* returns, and when its last attempt met a read error it returns the empty
\* table of the schema.
C11_LoadFailsSoft ==
    ld.result \notin {"none", "running"} =>
        /\ ld.result = "returned"
        /\ ld.attempt <= SafeLoadRetries
        /\ ld.lastError => ld.table = EmptyTable(COLUMNS[1])

(* ------------------------------------------------------------------ *)
(* WatchSpec: one application, its change watcher and an environment   *)
(* that writes the backing file and raises file system events          *)
(* ------------------------------------------------------------------ *)
MaxEvents == 3
MaxTime == 8
MaxWrites == 1

\* str.startswith, str.endswith
StartsWith(s, prefix) == Len(s) >= Len(prefix) /\ SubSeq(s, 1, Len(prefix)) = prefix
EndsWith(s, suffix) ==
    Len(s) >= Len(suffix) /\ SubSeq(s, Len(s) - Len(suffix) + 1, Len(s)) = suffix

\* basename of EXCEL_PATH, and the other names events of its folder carry:
\* the lock file of a spreadsheet program, a temporary file, another file
BackingName == <<"d", ".", "x">>
EventNames == {BackingName, <<"~", "$", "d", ".", "x">>, <<"d", ".", "t", "m", "p">>,
               <<"e", ".", "x">>}

\* the events of the folder: of files, and of a folder of the same name
Events == {[is_directory |-> FALSE, name |-> n] : n \in EventNames}
              \cup {[is_directory |-> TRUE, name |-> BackingName]}

\* filename.startswith("~$") or filename.endswith(".tmp")
IsArtifact(filename) ==
    StartsWith(filename, <<"~", "$">>) \/ EndsWith(filename, <<".", "t", "m", "p">>)

\* abspath(event.src_path) == self.filepath: the watch is on the folder of
\* the backing file, not recursive, so the paths differ by the name only
SamePath(filename, filepath) == filename = filepath

\* a handler without a debounce
NeverDebounced(now, last_update) == FALSE
\* if now - self.last_update < 2: return
Debounced(now, last_update) == now - last_update < 2

\* whether on_any_event goes on to reload
Reacts(ev, now, last_update) ==
    /\ ~ev.is_directory
    /\ ~IsArtifact(ev.name)
    /\ SamePath(ev.name, BackingName)
    /\ ~Debounced(now, last_update)

\* safe_load_excel(): the attempts that fail, and what it returns
RECURSIVE SafeLoadLoop(_, _, _, _)
SafeLoadLoop(attempt, refused, f, columns) ==
    IF ~LoopContinues(attempt, SafeLoadRetries)
    THEN [failed |-> TRUE, attempts |-> attempt, table |-> EmptyTable(columns)]
    ELSE IF refused > 0 \/ ~f.exists
    THEN SafeLoadLoop(attempt + 1, IF refused > 0 THEN refused - 1 ELSE 0, f, columns)
    ELSE [failed |-> FALSE, attempts |-> attempt, table |-> load_excel(f, columns)]

safe_load_excel(f, columns, refused) == SafeLoadLoop(0, refused, f, columns)

\* the clock after the sleeps of the failed attempts, half a second each
AfterSleeps(now, attempts) ==
    IF now + (attempts \div 2) > MaxTime THEN MaxTime ELSE now + (attempts \div 2)

\* the reads safe_load_excel is refused: none, or all it tries
WatchRefusals == {0, SafeLoadRetries}

\* how load_columns_json ends: it returns, or the file is refused
\* (PermissionError), or it is half written (JSONDecodeError)
ColumnsReads == {"ok", "permission", "other"}

\* ExcelHandler.on_any_event(event), on the observer's thread
on_any_event(ev, refused, columnsRead) ==
    /\ UNCHANGED <<lockVars, file, columnsFile, df, tree, call, outcome, opsLeft, ld, flt, doc, schema, config>>
    /\ watch.left > 0
    /\ refused > 0 => file.exists
    /\ LET w == [watch EXCEPT !.left = @ - 1, !.ev = ev,
                              !.reacted = Reacts(ev, watch.now, watch.last_update)]
       IN
       IF ~Reacts(ev, watch.now, watch.last_update)
       THEN watch' = w /\ UNCHANGED COLUMNS
       ELSE LET loaded == safe_load_excel(file, COLUMNS[1], refused)
                r == [w EXCEPT !.last_update = watch.now,
                               !.now = AfterSleeps(@, loaded.attempts)]
            IN
            CASE columnsRead = "permission" ->
                    \* except PermissionError: a notice is posted, sleep(1)
                    /\ watch' = [r EXCEPT !.posted = Append(@, [kind |-> "notice",
                                                               failed |-> loaded.failed,
                                                               new_df |-> loaded.table]),
                                          !.now = IF @ < MaxTime THEN @ + 1 ELSE @]
                    /\ UNCHANGED COLUMNS
              [] columnsRead = "other" ->
                    \* except Exception: print
                    /\ watch' = r
                    /\ UNCHANGED COLUMNS
              [] OTHER ->
                    \* the globals are assigned here, update_ui is posted
                    /\ COLUMNS' = [COLUMNS EXCEPT ![1] = columnsFile]
                    /\ watch' = [r EXCEPT !.posted = Append(@, [kind |-> "update_ui",
                                                               failed |-> loaded.failed,
                                                               new_df |-> loaded.table])]

\* the UI thread runs the callback posted first: update_ui calls
\* update_headers and refresh_table(new_df) and shows the notice; the
\* lambda of the PermissionError branch shows its notice only
RunPosted ==
    /\ UNCHANGED <<lockVars, file, columnsFile, COLUMNS, df, call, outcome, opsLeft, ld, flt, doc, schema, config>>
    /\ Len(watch.posted) > 0
    /\ ~watch.ui.running
    /\ LET cb == Head(watch.posted) IN
       /\ tree' = IF cb.kind = "update_ui"
                  THEN [tree EXCEPT ![1] = TreeOf(cb.new_df)] ELSE tree
       /\ watch' = [watch EXCEPT !.posted = Tail(@)]

\* refresh_table(self.df) of the UI thread, up to its first read of COLUMNS
\* (the headings of the view)
RefreshBegin ==
    /\ UNCHANGED <<lockVars, storeVars, ld, flt, doc, schema, config>>
    /\ ~watch.ui.running
    /\ watch.left > 0
    /\ watch' = [watch EXCEPT !.ui = [running |-> TRUE, cols |-> COLUMNS[1]]]

\* the rest of it: the values of every row, for c in COLUMNS
RefreshEnd ==
    /\ UNCHANGED <<lockVars, file, columnsFile, COLUMNS, df, call, outcome, opsLeft, ld, flt, doc, schema, config>>
    /\ watch.ui.running
    /\ tree' = [tree EXCEPT ![1] = TreeOf(df[1])]
    /\ watch' = [watch EXCEPT !.ui = [running |-> FALSE, cols |-> <<>>]]

\* time passes
Tick ==
    /\ UNCHANGED <<lockVars, storeVars, ld, flt, doc, schema, config>>
    /\ watch.now < MaxTime
    /\ watch' = [watch EXCEPT !.now = @ + 1]

\* the columns another application may have saved
OtherColumns == {DefaultColumns, <<KeyCol, RefCol>>}

\* what another application may have saved
ExternalFiles ==
    {[exists |-> TRUE, cols |-> DefaultColumns,
      rows |-> <<InitRow(<<"7">>)>>]}

\* another application saves the backing file and columns.json
ExternalWrite(f, columns) ==
    /\ UNCHANGED <<lockVars, COLUMNS, df, tree, call, outcome, opsLeft, ld, flt, doc, schema, config>>
    /\ watch.writes > 0
    /\ f.exists /\ <<f, columns>> # <<file, columnsFile>>
    /\ file' = [f EXCEPT !.cols = columns,
                         !.rows = [i \in DOMAIN f.rows |->
                                     [c \in Range(columns) |-> f.rows[i][c]]]]
    /\ columnsFile' = columns
    /\ watch' = [watch EXCEPT !.writes = @ - 1]

WatchInit ==
    /\ lockFile = 0
    /\ pc = [p \in Procs |-> "idle"]
    /\ acq = [p \in Procs |-> NoAcq]
    /\ unit = NoUnit
    /\ file \in InitFiles
    /\ columnsFile = DefaultColumns
    /\ COLUMNS = [p \in Procs |-> DefaultColumns]
    /\ df = [p \in Procs |-> load_excel(file, DefaultColumns)]
    /\ tree = [p \in Procs |-> TreeOf(df[p])]
    /\ call = [p \in Procs |-> NoCall]
    /\ outcome = [p \in Procs |-> "none"]
    /\ opsLeft = 0
    /\ ld = Unused
    /\ watch = [NoWatch EXCEPT !.left = MaxEvents, !.writes = MaxWrites]
    /\ flt = Unused
    /\ doc = Unused
    /\ schema = Unused
    /\ config = Unused

WatchNext ==
    \/ \E ev \in Events, n \in WatchRefusals, c \in ColumnsReads : on_any_event(ev, n, c)
    \/ RunPosted
    \/ RefreshBegin
    \/ RefreshEnd
    \/ Tick
    \/ \E f \in ExternalFiles, columns \in OtherColumns : ExternalWrite(f, columns)

WatchSpec == WatchInit /\ [][WatchNext]_vars

\* C12: the watcher reloads on an event exactly when the event is of a
\* file, not of a folder, its name is no temporary or lock artifact, its
\* path is the backing file's, and at least 2 seconds passed since the last
\* reload; an event it does not react to changes nothing but the record of
\* the event, so the events within 2 seconds of a reload cause no second one.
C12_WatcherReacts ==
    [][/\ watch'.left = watch.left => watch'.last_update = watch.last_update
       /\ watch'.left < watch.left =>
             LET ev == watch'.ev
                 reloads == watch'.last_update # watch.last_update
             IN
             /\ reloads <=>
                   /\ ~ev.is_directory
                   /\ ~StartsWith(ev.name, <<"~", "$">>)
                   /\ ~EndsWith(ev.name, <<".", "t", "m", "p">>)
                   /\ ev.name = BackingName
                   /\ watch.now - watch.last_update >= 2
             /\ reloads => watch'.last_update = watch.now
             /\ ~reloads => /\ watch'.posted = watch.posted
                            /\ watch'.now = watch.now
                            /\ COLUMNS' = COLUMNS /\ tree' = tree /\ df' = df]_vars

\* two events of the backing file within 2 seconds: the first caused a
\* reload, whose callback is posted, the second caused none
C12_Witness ==
    /\ watch.left = MaxEvents - 2
    /\ watch.ev = [is_directory |-> FALSE, name |-> BackingName]
    /\ ~watch.reacted
    /\ watch.last_update >= StartClock
    /\ watch.now - watch.last_update = 1
    /\ Len(watch.posted) = 1

\* the step in which the UI thread runs the callback posted first
RunsCallback == Len(watch.posted) > 0 /\ watch'.posted = Tail(watch.posted)

\* C13: when the UI update of a reaction whose reload succeeded has run,
\* the in-memory table self.df is the table the reaction loaded.
C13_ReactionReloadsStore ==
    [][RunsCallback /\ Head(watch.posted).kind = "update_ui" /\ ~Head(watch.posted).failed =>
          df'[1] = Head(watch.posted).new_df]_vars

\* C14: when the reload of a reaction failed on every attempt, the table in
\* memory and the rows on display are, after the reaction's callback has
\* run, what they were before.
C14_FailedReloadKeepsTable ==
    [][RunsCallback /\ Head(watch.posted).failed => df' = df /\ tree' = tree]_vars

\* C15: the schema list changes only in a step of the UI thread that runs a
\* posted callback, so a table refresh of the UI thread that is under way
\* reads the schema it began with.
C15_OnlyUiThreadChangesState ==
    [][/\ COLUMNS' # COLUMNS => RunsCallback
       /\ watch'.ui.running => watch'.ui.cols = COLUMNS'[1]]_vars

(* ------------------------------------------------------------------ *)
(* The filters: the key filter and the checklists over self.df         *)
(* ------------------------------------------------------------------ *)
\* the characters of the filtered columns, in the order of their codes
Alphabet == DigitChar \o <<"X", "Y", "m">>
CharCode(c) == CHOOSE i \in DOMAIN Alphabet : Alphabet[i] = c

\* a < b for two str
RECURSIVE StrLess(_, _)
StrLess(a, b) ==
    IF Len(b) = 0 THEN FALSE
    ELSE IF Len(a) = 0 THEN TRUE
    ELSE IF a[1] # b[1] THEN CharCode(a[1]) < CharCode(b[1])
    ELSE StrLess(Tail(a), Tail(b))

\* sorted(S) of a set of str
RECURSIVE Sorted(_)
Sorted(S) ==
    IF S = {} THEN <<>>
    ELSE LET least == CHOOSE x \in S : \A y \in S \ {x} : StrLess(x, y) IN
         <<least>> \o Sorted(S \ {least})

\* the text show_placeholder puts into the key filter
Placeholder == <<" ", "S", "e", "a", "r", "c", "h", " ", "N", "o", ".", ".", ".">>

\* Series.str.contains(sub) on one value. sub is a pattern; for digits it
\* matches where it occurs, and the letters of the placeholder occur in no key
Contains(s, sub) ==
    \E i \in 0..(Len(s) - Len(sub)) : SubSeq(s, i + 1, i + Len(sub)) = sub

\* the filters that are active when apply_filters begins
KeyActive(F) == Strip(F.key) # <<>>
ChecklistActive(F, c) == F.selected[c] # {}
\* one value of the boolean Series an active filter gives
KeyPasses(row, F) == Contains(KeyText(row[KeyCol]), Strip(F.key))
ChecklistPasses(row, F, c) == row[c].t = "str" /\ row[c].s \in F.selected[c]

\* df = df[...] once for every active filter, in the order of self.filters:
\* the positions of self.df that stay
RECURSIVE NarrowBy(_, _, _, _)
NarrowBy(rows, F, kept, k) ==
    IF k > Len(ChecklistColumns) THEN kept
    ELSE LET c == ChecklistColumns[k] IN
         NarrowBy(rows, F,
                  IF ChecklistActive(F, c)
                  THEN {i \in kept : ChecklistPasses(rows[i], F, c)}
                  ELSE kept,
                  k + 1)

FilteredPositions(rows, F) ==
    NarrowBy(rows, F,
             IF KeyActive(F) THEN {i \in DOMAIN rows : KeyPasses(rows[i], F)}
             ELSE DOMAIN rows,
             1)

\* a & b of two boolean Series: the labels of both, TRUE where both have
\* the label and are TRUE
AndAligned(a, b) ==
    [l \in DOMAIN a \cup DOMAIN b |->
        l \in DOMAIN a /\ l \in DOMAIN b /\ a[l] /\ b[l]]

\* the row of self.df with label l
RowAt(rows, index, l) == rows[CHOOSE i \in DOMAIN index : index[i] = l]

\* mask &= ... for the checklists after the k-th that are active, but col
RECURSIVE MaskChecklists(_, _, _, _, _, _)
MaskChecklists(rows, index, F, col, mask, k) ==
    IF k > Len(ChecklistColumns) THEN mask
    ELSE LET c == ChecklistColumns[k] IN
         MaskChecklists(rows, index, F, col,
             IF c # col /\ ChecklistActive(F, c)
             THEN AndAligned(mask, [l \in Range(index) |->
                                       ChecklistPasses(RowAt(rows, index, l), F, c)])
             ELSE mask,
             k + 1)

\* the mask of a checklist column: pd.Series([True] * len(self.df)), which
\* is labelled 0..len-1, and-ed with the Series of every other active filter
MaskOf(rows, index, F, col) ==
    LET mask0 == [l \in 0..(Len(rows) - 1) |-> TRUE]
        mask1 == IF KeyActive(F)
                 THEN AndAligned(mask0, [l \in Range(index) |->
                                            KeyPasses(RowAt(rows, index, l), F)])
                 ELSE mask0
    IN MaskChecklists(rows, index, F, col, mask1, 1)

\* self.df[mask] raises when the mask lacks a label of self.df
Unalignable(index, mask) == \E i \in DOMAIN index : index[i] \notin DOMAIN mask

\* self.df[mask][col].dropna().unique()
Available(rows, index, mask, col) ==
    {rows[i][col].s : i \in {j \in DOMAIN rows : rows[j][col].t = "str" /\ mask[index[j]]}}

\* the selection a checklist keeps instead
KeepSelection(selected, available) == selected
\* widget.selected = [v for v in widget.selected if v in available]
Restrict(selected, available) == selected \cap available

\* the loop over the checklists from the k-th on; it ends at the first
\* column whose mask cannot be aligned. w: values, selected, raised
RECURSIVE UpdateChecklists(_, _, _, _, _)
UpdateChecklists(rows, index, F, w, k) ==
    IF k > Len(ChecklistColumns) THEN w
    ELSE LET col == ChecklistColumns[k]
             mask == MaskOf(rows, index, F, col)
         IN IF Unalignable(index, mask) THEN [w EXCEPT !.raised = TRUE]
            ELSE LET available == Available(rows, index, mask, col) IN
                 UpdateChecklists(rows, index, F,
                     [w EXCEPT !.values[col] = Sorted(available),
                               !.selected[col] = Restrict(@, available)],
                     k + 1)

\* apply_filters with the key filter and the selections of g; the table is
\* refreshed only when the loop over the checklists ended without exception
apply_filters(g) ==
    LET rows == df[1].rows
        F == [key |-> g.key, selected |-> g.selected]
        w == UpdateChecklists(rows, g.index, F,
                 [values |-> g.values, selected |-> g.selected, raised |-> FALSE], 1)
        kept == FilteredPositions(rows, F)
        shown == [cols |-> df[1].cols,
                  rows |-> SelectSeq(rows, LAMBDA r : \E i \in kept : rows[i] = r)]
    IN /\ flt' = [g EXCEPT !.values = w.values, !.selected = w.selected,
                           !.shown = IF w.raised THEN @ ELSE {g.index[i] : i \in kept},
                           !.F0 = F, !.raised = w.raised, !.calls = TRUE]
       /\ tree' = IF w.raised THEN tree ELSE [tree EXCEPT ![1] = TreeOf(shown)]
       /\ UNCHANGED <<lockVars, file, columnsFile, COLUMNS, df, call, outcome, opsLeft,
                      ld, watch, doc, schema, config>>

\* what the user can type into the key filter: digits only
KeyInputs == {<<>>, <<"1">>, <<"0">>}

\* the key filter gets the focus for the first time: hide_placeholder
\* empties it, and on_var_change calls apply_filters
on_focus_in ==
    /\ flt.key = Placeholder
    /\ apply_filters([flt EXCEPT !.key = <<>>])

\* the user edits the key filter: on_var_change calls apply_filters. The
\* placeholder does not come back: the validation refuses its insertion
KeyFilterChange(val) ==
    /\ flt.key # Placeholder
    /\ val # flt.key
    /\ apply_filters([flt EXCEPT !.key = val])

\* a checkbox of the checklist of col is toggled: update_selection, then
\* the callback apply_filters
update_selection(col, v) ==
    /\ v \in Range(flt.values[col])
    /\ apply_filters([flt EXCEPT !.selected[col] =
                         IF v \in @ THEN @ \ {v} ELSE @ \cup {v}])

\* the rows of a table under filter
FilterRow(k, r, m) ==
    [c \in Range(DefaultColumns) |->
        CASE c = KeyCol -> StrCell(k) [] c = RefCol -> StrCell(r) [] OTHER -> StrCell(m)]
FilterTables ==
    { <<FilterRow(<<"1">>, <<"X">>, <<"m">>), FilterRow(<<"1", "0">>, <<"Y">>, <<>>)>>,
      <<FilterRow(<<"1">>, <<"X">>, <<"m">>), FilterRow(<<"2">>, <<"Y">>, <<"m">>),
        FilterRow(<<"1", "0">>, <<"Y">>, <<>>)>> }

\* the values of the checklist columns of FilterTables
FilterValues == UNION {{t[i][c].s : i \in DOMAIN t, c \in Range(ChecklistColumns)} :
                       t \in FilterTables}

\* seq without its i-th element (i = 0: seq)
Without(seq, i) == [j \in 1..(Len(seq) - (IF i = 0 THEN 0 ELSE 1)) |->
                       IF i = 0 \/ j < i THEN seq[j] ELSE seq[j + 1]]

\* load_excel and create_filters at startup, which shows the placeholder
\* in the key filter, followed by at most one
\* delete_selected_row, whose drop leaves the other labels as they were
FilterInit ==
    /\ lockFile = 0
    /\ pc = [p \in Procs |-> "idle"]
    /\ acq = [p \in Procs |-> NoAcq]
    /\ unit = NoUnit
    /\ columnsFile = DefaultColumns
    /\ COLUMNS = [p \in Procs |-> DefaultColumns]
    /\ call = [p \in Procs |-> NoCall]
    /\ outcome = [p \in Procs |-> "none"]
    /\ opsLeft = 0
    /\ ld = Unused
    /\ watch = Unused
    /\ doc = Unused
    /\ schema = Unused
    /\ config = Unused
    /\ \E loaded \in FilterTables : \E dropped \in 0..Len(loaded) :
        LET t == [cols |-> DefaultColumns, rows |-> Without(loaded, dropped)] IN
        /\ file = [exists |-> TRUE, cols |-> DefaultColumns, rows |-> t.rows]
        /\ df = [p \in Procs |-> t]
        /\ tree = [p \in Procs |-> TreeOf(t)]
        /\ flt = [NoFilters EXCEPT
                    !.key = Placeholder,
                    !.index = Without([i \in 1..Len(loaded) |-> i - 1], dropped),
                    !.values = [c \in Range(ChecklistColumns) |->
                                   Sorted({loaded[i][c].s : i \in DOMAIN loaded})],
                    !.shown = Range(Without([i \in 1..Len(loaded) |-> i - 1], dropped))]

FilterNext ==
    \/ on_focus_in
    \/ \E val \in KeyInputs : KeyFilterChange(val)
    \/ \E col \in Range(ChecklistColumns), v \in FilterValues : update_selection(col, v)

FilterSpec == FilterInit /\ [][FilterNext]_vars

\* the key constraint of the user: what was typed into the key filter
TypedKey(F) == IF F.key = Placeholder THEN <<>> ELSE Strip(F.key)

\* the row of self.df with label l satisfies every active constraint of F
\* but that of column except
Satisfies(l, F, except) ==
    LET row == RowAt(df[1].rows, flt.index, l) IN
    /\ (TypedKey(F) # <<>> /\ except # KeyCol) => Contains(KeyText(row[KeyCol]), TypedKey(F))
    /\ \A c \in Range(ChecklistColumns) \ {except} :
          F.selected[c] # {} => row[c].s \in F.selected[c]

\* C16: after apply_filters the rows on display are exactly the rows of the
\* table that satisfy every active constraint of the filter state the call
\* began with
C16_ShownIsConjunction ==
    flt.calls => flt.shown = {l \in Range(flt.index) : Satisfies(l, flt.F0, "")}

\* C16, for the calls that end without exception after the placeholder
\* has gone
C16_ShownWhenCompleted ==
    (flt.calls /\ ~flt.raised /\ flt.F0.key # Placeholder) =>
        flt.shown = {l \in Range(flt.index) : Satisfies(l, flt.F0, "")}

\* C16: the key filter "1" and the checklist {X} let through (1, X) alone
C16_Example ==
    /\ flt.calls /\ ~flt.raised
    /\ flt.F0.key = <<"1">> /\ flt.F0.selected[RefCol] = {<<"X">>}
    /\ Cardinality(flt.shown) = 1

\* the values the claim has a checklist offer: the distinct values of col
\* among the rows that satisfy every other active constraint, sorted
Narrowed(F, col) ==
    Sorted({RowAt(df[1].rows, flt.index, l)[col].s :
               l \in {x \in Range(flt.index) : Satisfies(x, F, col)}})

\* C17: after apply_filters every checklist offers exactly the sorted
\* distinct values of its column among the rows of the unfiltered table
\* that satisfy every other active constraint
C17_CrossFilterNarrowing ==
    flt.calls => \A col \in Range(ChecklistColumns) :
                    flt.values[col] = Narrowed(flt.F0, col)

\* C17, for the calls made after the placeholder has gone on a table
\* whose labels are 0..len-1
C17_NarrowingOnFreshTable ==
    (/\ flt.calls
     /\ flt.F0.key # Placeholder
     /\ \A i \in DOMAIN flt.index : flt.index[i] = i - 1)
    => /\ ~flt.raised
       /\ \A col \in Range(ChecklistColumns) : flt.values[col] = Narrowed(flt.F0, col)

\* C17: a call with the placeholder gone that ends by the exception
C17_MaskRaises == flt.calls /\ flt.raised

\* C18: after apply_filters the selection of every checklist is the
\* selection the call began with restricted to the values the checklist
\* now offers, and at all times a selection is a subset of the offered values
C18_SelectionRestricted ==
    /\ \A col \in Range(ChecklistColumns) : flt.selected[col] \subseteq Range(flt.values[col])
    /\ flt.calls => \A col \in Range(ChecklistColumns) :
                       flt.selected[col] = flt.F0.selected[col] \cap Range(flt.values[col])

\* C18: a call that kept one selected value of a checklist and dropped another
C18_Witness ==
    /\ flt.calls /\ ~flt.raised
    /\ \E col \in Range(ChecklistColumns) :
          /\ flt.selected[col] # {}
          /\ flt.selected[col] # flt.F0.selected[col]

(* ------------------------------------------------------------------ *)
(* The documents: find_pdf and the handlers that copy and remove them  *)
(* ------------------------------------------------------------------ *)
\* handlers DocSpec runs
MaxDocOps == 3

\* str.zfill(width)
RECURSIVE ZFill(_, _)
ZFill(s, width) == IF Len(s) >= width THEN s ELSE ZFill(<<"0">> \o s, width)

\* str.lower() of a document name
LowerChar(c) == IF c = "N" THEN "n" ELSE c
Lower(s) == [i \in DOMAIN s |-> LowerChar(s[i])]

\* the text find_pdf looks for, before the padded key: the two characters
\* read kensaku, written "k" and "s" here, then "no."
PrefixLower == <<"k", "s", "n", "o", ".">>
\* the name under which save_entry and save_edited_entry copy a document
NewPdfName(search_no, type1, type2) ==
    <<"k", "s", "N", "o", ".">> \o ZFill(search_no, 3) \o <<"_">> \o type1 \o <<"_">> \o type2
        \o <<".", "p", "d", "f">>

\* the condition of find_pdf on one name of the listing
MatchesKey(f, search_no) ==
    /\ EndsWith(Lower(f), <<".", "p", "d", "f">>)
    /\ Contains(Lower(f), PrefixLower \o ZFill(search_no, 3))

\* find_pdf(search_no) on directory d: os.listdir raises when the
\* directory is missing; else the first name of the listing that matches
find_pdf(d, search_no) ==
    IF ~d.exists THEN [status |-> "raised", path |-> <<>>]
    ELSE IF \E i \in DOMAIN d.listing : MatchesKey(d.listing[i], search_no)
    THEN [status |-> "path",
          path |-> d.listing[CHOOSE i \in DOMAIN d.listing :
                        /\ MatchesKey(d.listing[i], search_no)
                        /\ \A j \in 1..(i - 1) : ~MatchesKey(d.listing[j], search_no)]]
    ELSE [status |-> "none", path |-> <<>>]

\* if not os.path.exists(PDF_DIR): os.makedirs(PDF_DIR)
makedirs(d) == IF d.exists THEN d ELSE [d EXCEPT !.exists = TRUE, !.listing = <<>>]

\* os.remove(path)
remove(d, path) == [d EXCEPT !.listing = SelectSeq(@, LAMBDA f : f # path)]

\* the directory without the document find_pdf gives, as Edit and Delete
\* remove it
RemoveFound(d, search_no) ==
    LET r == find_pdf(d, search_no) IN
    IF r.status = "path" THEN remove(d, r.path) ELSE d

\* shutil.copy(src, dst) into the directory: a name that is there is
\* overwritten, a new name appears at place pos of the listing
copy(d, name, pos) ==
    IF \E i \in DOMAIN d.listing : d.listing[i] = name THEN d
    ELSE [d EXCEPT !.listing = SubSeq(@, 1, pos) \o <<name>> \o SubSeq(@, pos + 1, Len(@))]

\* the keys and the values of "Type 1" the forms are filled with
DocKeys == {<<"1">>, <<"1", "0">>, <<"1", "0", "0">>, <<"1", "0", "0", "1">>}
DocTypes == {<<"a">>, <<"b">>}

\* how a handler that copies a document ends: shutil.copy raises, or
\* save_excel_with_lock raises, or neither
DocEnds == {"copy_failed", "failed", "saved"}

\* what the history keeps of a handler: its key, the record it began
\* with and whether that record had a document, the keys on record before
Began(op, search_no, orig, end) ==
    [op |-> op, key |-> search_no, result |-> end, path |-> <<>>,
     orig |-> orig, had |-> \E i \in DOMAIN doc.listing : MatchesKey(doc.listing[i], orig),
     before |-> doc.keys]

\* save_entry with a key and a chosen file: the file is copied, and no
\* document is removed before; an exception of shutil.copy ends the handler
doc_save_entry(search_no, type1, end) ==
    /\ doc.left > 0
    /\ LET d0 == makedirs(doc) IN
       IF search_no \in doc.keys
       THEN doc' = [d0 EXCEPT !.left = @ - 1,
                       !.last = Began("add", search_no, search_no, "rejected")]
       ELSE \E pos \in 0..Len(d0.listing) :
            LET d1 == IF end = "copy_failed" THEN d0
                      ELSE copy(d0, NewPdfName(search_no, type1, <<>>), pos)
            IN doc' = [d1 EXCEPT !.left = @ - 1,
                          !.keys = IF end = "saved" THEN @ \cup {search_no} ELSE @,
                          !.last = Began("add", search_no, search_no, end)]
    /\ UNCHANGED <<lockVars, storeVars, ld, watch, flt, schema, config>>

\* save_edited_entry of the record original_search_no; chosen: a file was
\* chosen in the form. The document found for the record is removed before
\* shutil.copy is called
doc_save_edited_entry(original_search_no, search_no_val, type1, chosen, end) ==
    /\ doc.left > 0
    /\ original_search_no \in doc.keys
    /\ search_no_val \notin doc.keys \ {original_search_no}
    /\ end = "copy_failed" => chosen
    /\ LET d0 == IF chosen THEN RemoveFound(makedirs(doc), original_search_no) ELSE doc IN
       \E pos \in 0..(IF chosen THEN Len(d0.listing) ELSE 0) :
        LET d1 == IF chosen /\ end # "copy_failed"
                  THEN copy(d0, NewPdfName(search_no_val, type1, <<>>), pos) ELSE d0
        IN doc' = [d1 EXCEPT !.left = @ - 1,
                      !.keys = IF end = "saved"
                               THEN (@ \ {original_search_no}) \cup {search_no_val}
                               ELSE @,
                      !.last = Began(IF chosen THEN "edit" ELSE "edit_record",
                                     search_no_val, original_search_no, end)]
    /\ UNCHANGED <<lockVars, storeVars, ld, watch, flt, schema, config>>

\* delete_selected_row of the record search_no: the document is looked for
\* after the save, and only if the save ended without exception
doc_delete_selected_row(search_no, saved) ==
    /\ doc.left > 0
    /\ search_no \in doc.keys
    /\ LET r == find_pdf(doc, search_no) IN
       doc' = IF ~saved
              THEN [doc EXCEPT !.left = @ - 1,
                       !.last = Began("delete", search_no, search_no, "failed")]
              ELSE [RemoveFound(doc, search_no) EXCEPT
                       !.left = @ - 1,
                       !.keys = @ \ {search_no},
                       !.last = [Began("delete", search_no, search_no,
                                       IF r.status = "raised" THEN "raised" ELSE "saved")
                                 EXCEPT !.path = r.path]]
    /\ UNCHANGED <<lockVars, storeVars, ld, watch, flt, schema, config>>

\* open_pdf_preview of the record search_no: pdf = find_pdf(values[0])
open_pdf_preview(search_no) ==
    /\ doc.left > 0
    /\ search_no \in doc.keys
    /\ LET r == find_pdf(doc, search_no) IN
       doc' = [doc EXCEPT !.left = @ - 1,
                  !.last = [op |-> "find", key |-> search_no, result |-> r.status,
                            path |-> r.path]]
    /\ UNCHANGED <<lockVars, storeVars, ld, watch, flt, schema, config>>

\* save_settings with a document directory that does not exist: PDF_DIR
\* is assigned as it is typed
save_settings ==
    /\ doc.left > 0
    /\ doc.exists
    /\ doc' = [doc EXCEPT !.left = @ - 1, !.exists = FALSE, !.listing = <<>>,
                  !.last = [op |-> "settings", key |-> <<>>, result |-> "none", path |-> <<>>]]
    /\ UNCHANGED <<lockVars, storeVars, ld, watch, flt, schema, config>>

\* the directory made at the start of the program, no record yet
DocInit ==
    /\ lockFile = 0
    /\ pc = [p \in Procs |-> "idle"]
    /\ acq = [p \in Procs |-> NoAcq]
    /\ unit = NoUnit
    /\ file = NoFile
    /\ columnsFile = DefaultColumns
    /\ COLUMNS = [p \in Procs |-> DefaultColumns]
    /\ df = [p \in Procs |-> EmptyTable(DefaultColumns)]
    /\ tree = [p \in Procs |-> <<NoRecordFound>>]
    /\ call = [p \in Procs |-> NoCall]
    /\ outcome = [p \in Procs |-> "none"]
    /\ opsLeft = 0
    /\ ld = Unused
    /\ watch = Unused
    /\ flt = Unused
    /\ schema = Unused
    /\ config = Unused
    /\ doc = [NoDocs EXCEPT !.left = MaxDocOps]

DocNext ==
    \/ \E k \in DocKeys, t \in DocTypes, end \in DocEnds : doc_save_entry(k, t, end)
    \/ \E k \in DocKeys, n \in DocKeys, t \in DocTypes, chosen \in BOOLEAN, end \in DocEnds :
          doc_save_edited_entry(k, n, t, chosen, end)
    \/ \E k \in DocKeys, saved \in BOOLEAN : doc_delete_selected_row(k, saved)
    \/ \E k \in DocKeys : open_pdf_preview(k)
    \/ save_settings

DocSpec == DocInit /\ [][DocNext]_vars

\* the names of the listing that match a key
Matching(search_no) ==
    {doc.listing[i] : i \in {j \in DOMAIN doc.listing : MatchesKey(doc.listing[j], search_no)}}

\* C19: find_pdf gives none when the directory is missing or no name of
\* it matches the padded key, the matching path when there is exactly one,
\* and with several the path a repeated call gives
C19_FindPdf ==
    doc.last.op = "find" =>
        LET M == Matching(doc.last.key) IN
        /\ (~doc.exists \/ M = {}) => doc.last.result = "none"
        /\ (doc.exists /\ M # {}) =>
              /\ doc.last.result = "path"
              /\ doc.last.path \in M
              /\ doc.last.path = find_pdf(doc, doc.last.key).path

\* C19, for a directory that exists
C19_FindPdfInDirectory ==
    (doc.last.op = "find" /\ doc.exists) =>
        LET M == Matching(doc.last.key) IN
        /\ M = {} => doc.last.result = "none"
        /\ M # {} => /\ doc.last.result = "path"
                     /\ doc.last.path \in M
                     /\ doc.last.path = find_pdf(doc, doc.last.key).path

\* C19: find_pdf was called with several matching names in the directory
C19_SeveralMatch ==
    doc.last.op = "find" /\ Cardinality(Matching(doc.last.key)) > 1

\* C20: after an Add or an Edit with a chosen file exactly one document
\* matches the key, and after a Delete whose save succeeded none does
C20_DocumentReplaced ==
    /\ (doc.last.op \in {"add", "edit"} /\ doc.last.result = "saved")
          => Cardinality(Matching(doc.last.key)) = 1
    /\ (doc.last.op = "delete" /\ doc.last.result \in {"saved", "raised"})
          => Matching(doc.last.key) = {}

\* C20, for Edit alone when the key stays the same
C20_EditReplaces ==
    [][\A k \in DocKeys, t \in DocTypes, end \in {"failed", "saved"} :
          (doc_save_edited_entry(k, k, t, TRUE, end) /\ Cardinality(Matching(k)) <= 1)
             => Cardinality(Matching(k)') = 1]_vars

\* C21: when the copy of the chosen document fails in Add or Edit, the
\* keys on record are those of before, and the record the handler began
\* with still has a document if it had one
C21_CopyFailureAborts ==
    doc.last.result = "copy_failed" =>
        /\ doc.keys = doc.last.before
        /\ doc.last.had => Matching(doc.last.orig) # {}

\* C21, for Add alone
C21_AddCopyFailure ==
    (doc.last.result = "copy_failed" /\ doc.last.op = "add") =>
        /\ doc.keys = doc.last.before
        /\ doc.last.key \notin doc.keys
        /\ doc.last.had => Matching(doc.last.orig) # {}

\* C21: an Add whose copy failed
C21_AddCopyFailed == doc.last.result = "copy_failed" /\ doc.last.op = "add"

(* ------------------------------------------------------------------ *)
(* The column lists in both languages                                  *)
(* ------------------------------------------------------------------ *)
\* add-column and remove-column handlers SchemaSpec runs
MaxSchemaOps == 3

\* DEFAULT_COLUMNS["japanese"], cut as DefaultColumns is and written in
\* ASCII
JapaneseColumns == <<"kensaku No.", "sankou kishu", "kishumei">>
Languages == {"English", "Japanese"}

\* the names typed into the add-column popup
EnglishNames == {ModelCol, "Extra"}
JapaneseNames == {JapaneseColumns[3], "tsuika"}

\* list.index(x): the first place of x, 0 when list.index raises ValueError
IndexOf(seq, x) ==
    IF \E i \in DOMAIN seq : seq[i] = x
    THEN CHOOSE i \in DOMAIN seq : seq[i] = x /\ \A j \in 1..(i - 1) : seq[j] # x
    ELSE 0

\* a check that protects no column
NeverProtected(eng_col) == FALSE
\* if eng_col in ["Search No", "Reference model"]
CannotRemove(eng_col) == eng_col \in ProtectedColumns

\* what a handler can change: the two lists, the columns of self.df, the
\* lists in columns.json and the columns of the backing file
SchemaState(r) ==
    [english |-> r.english, japanese |-> r.japanese, dfcols |-> r.dfcols,
     stored |-> r.stored, filecols |-> r.filecols]

\* the end of a handler: left, and in the history the handler, its
\* outcome and the state it began in
SchemaEnd(r, op, result) ==
    [r EXCEPT !.left = schema.left - 1,
              !.last = [op |-> op, result |-> result, lang |-> schema.lang,
                        before |-> SchemaState(schema)]]

\* save_columns, then save_excel_with_lock(self.df), whose to_excel of
\* df[COLUMNS] needs every column of the list in the frame
SchemaSave(r, saved) ==
    LET r1 == [r EXCEPT !.stored = [english |-> r.english, japanese |-> r.japanese]] IN
    IF saved /\ Range(r.english) \subseteq Range(r.dfcols)
    THEN [r1 EXCEPT !.filecols = r.english]
    ELSE r1

\* on_submit of the add-column popup
schema_add(eng_name, jpn_name, saved) ==
    /\ schema.left > 0
    /\ schema' =
        IF eng_name \in Range(schema.english) \/ jpn_name \in Range(schema.japanese)
        THEN SchemaEnd(schema, "add", "column_exists")
        ELSE LET idx == Len(schema.english)
                 r1 == [schema EXCEPT !.english = InsertAt(@, idx, eng_name),
                                      !.japanese = InsertAt(@, idx, jpn_name)]
             IN IF eng_name \in Range(schema.dfcols) \/ idx > Len(schema.dfcols)
                THEN SchemaEnd(r1, "add", "add_failed")
                ELSE SchemaEnd(SchemaSave([r1 EXCEPT !.dfcols = InsertAt(@, idx, eng_name)], saved),
                               "add", IF saved THEN "added" ELSE "add_failed")
    /\ UNCHANGED <<lockVars, storeVars, ld, watch, flt, doc, config>>

\* _remove_column for the item of the column list that shows col_name
schema_remove(col_name, saved) ==
    /\ schema.left > 0
    /\ schema' =
        LET idx == IF schema.lang = "Japanese" THEN IndexOf(schema.japanese, col_name)
                   ELSE IndexOf(schema.english, col_name)
        IN IF idx = 0 THEN SchemaEnd(schema, "remove", "raised")
           ELSE LET eng_col == IF schema.lang = "Japanese" THEN schema.english[idx]
                               ELSE col_name
                    r1 == [schema EXCEPT !.english = RemoveAt(@, idx),
                                         !.japanese = RemoveAt(@, idx)]
                IN IF CannotRemove(eng_col) THEN SchemaEnd(schema, "remove", "cannot_remove")
                   ELSE IF eng_col \notin Range(schema.dfcols)
                   THEN SchemaEnd(r1, "remove", "remove_failed")
                   ELSE SchemaEnd(SchemaSave([r1 EXCEPT !.dfcols =
                                                 SelectSeq(@, LAMBDA c : c # eng_col)], saved),
                                  "remove", IF saved THEN "removed" ELSE "remove_failed")
    /\ UNCHANGED <<lockVars, storeVars, ld, watch, flt, doc, config>>

\* save_settings with another language: self.lang = lang_var.get()
schema_language(lang) ==
    /\ lang # schema.lang
    /\ schema' = [schema EXCEPT !.lang = lang]
    /\ UNCHANGED <<lockVars, storeVars, ld, watch, flt, doc, config>>

SchemaInit ==
    /\ lockFile = 0
    /\ pc = [p \in Procs |-> "idle"]
    /\ acq = [p \in Procs |-> NoAcq]
    /\ unit = NoUnit
    /\ file = NoFile
    /\ columnsFile = DefaultColumns
    /\ COLUMNS = [p \in Procs |-> DefaultColumns]
    /\ df = [p \in Procs |-> EmptyTable(DefaultColumns)]
    /\ tree = [p \in Procs |-> <<NoRecordFound>>]
    /\ call = [p \in Procs |-> NoCall]
    /\ outcome = [p \in Procs |-> "none"]
    /\ opsLeft = 0
    /\ ld = Unused
    /\ watch = Unused
    /\ flt = Unused
    /\ doc = Unused
    /\ config = Unused
    /\ \E lang \in Languages :
        schema = [english |-> DefaultColumns, japanese |-> JapaneseColumns,
                  dfcols |-> DefaultColumns, filecols |-> DefaultColumns,
                  stored |-> [english |-> DefaultColumns, japanese |-> JapaneseColumns],
                  lang |-> lang, left |-> MaxSchemaOps,
                  last |-> [op |-> "none", result |-> "none", lang |-> lang,
                            before |-> <<>>]]

SchemaNext ==
    \/ \E e \in EnglishNames, j \in JapaneseNames, saved \in BOOLEAN : schema_add(e, j, saved)
    \/ \E c \in Range(DefaultColumns) \cup Range(JapaneseColumns) \cup EnglishNames
               \cup JapaneseNames, saved \in BOOLEAN : schema_remove(c, saved)
    \/ \E lang \in Languages : schema_language(lang)

SchemaSpec == SchemaInit /\ [][SchemaNext]_vars

\* C22: the column lists in both languages, in memory and in columns.json,
\* always hold the two protected columns, and a removal that was refused
\* for a protected column changed no list, not the frame and not the file
C22_ProtectedColumns ==
    /\ ProtectedColumns \subseteq Range(schema.english)
    /\ ProtectedColumns \subseteq Range(schema.stored.english)
    /\ ProtectedColumns \subseteq Range(schema.filecols)
    /\ \A i \in 1..2 : /\ JapaneseColumns[i] \in Range(schema.japanese)
                       /\ IndexOf(schema.japanese, JapaneseColumns[i])
                             = IndexOf(schema.english, DefaultColumns[i])
    /\ schema.last.result = "cannot_remove" => SchemaState(schema) = schema.last.before

\* C22: the removal of a protected column was refused in the Japanese
\* display after the lists had changed
C22_Witness ==
    /\ schema.last.result = "cannot_remove"
    /\ schema.last.lang = "Japanese"
    /\ schema.english # DefaultColumns

(* ------------------------------------------------------------------ *)
(* The keys of Add and Edit: one application and what can be typed     *)
(* ------------------------------------------------------------------ *)
\* handlers started in one run of KeySpec
MaxKeyOps == 2

\* only_numbers(char): the validation of the key entry of the add form,
\* called with the text an edit inserts or deletes
only_numbers(char) == IsDigit(char) \/ char = <<>>

\* the contents the key entry of the add form can get
TypedKeys == {k \in {<<>>, <<"7">>, <<"0", "7">>, <<"1", "0">>, <<"sup2">>} :
                 \A i \in 1..Len(k) : only_numbers(<<k[i]>>)}

\* the application that runs
KeyProcs == {1}

\* a backing file the application wrote before: whole numbers, ascending.
\* The sentinel is absent at the start, or left there by another application
KeyFiles ==
    {NoFile,
     [exists |-> TRUE, cols |-> DefaultColumns,
      rows |-> <<[InitRow(<<>>) EXCEPT ![KeyCol] = IntCell(7)],
                 [InitRow(<<>>) EXCEPT ![KeyCol] = IntCell(10)]>>]}

KeyInit ==
    /\ lockFile \in {0, 2}
    /\ pc = [p \in Procs |-> "idle"]
    /\ acq = [p \in Procs |-> NoAcq]
    /\ unit = NoUnit
    /\ file \in KeyFiles
    /\ columnsFile = DefaultColumns
    /\ COLUMNS = [p \in Procs |-> DefaultColumns]
    /\ df = [p \in Procs |-> load_excel(file, DefaultColumns)]
    /\ tree = [p \in Procs |-> TreeOf(load_excel(file, DefaultColumns))]
    /\ call = [p \in Procs |-> NoCall]
    /\ outcome = [p \in Procs |-> "none"]
    /\ opsLeft = MaxKeyOps
    /\ ld = Unused
    /\ watch = Unused
    /\ flt = Unused
    /\ doc = Unused
    /\ schema = Unused
    /\ config = Unused

KeyNext ==
    \E p \in KeyProcs :
        \/ \E k \in TypedKeys, r \in RefInputs : save_entry(p, k, r)
        \/ \E i \in DOMAIN tree[p], r \in RefInputs : save_edited_entry(p, i, r)
        \/ \E i \in DOMAIN tree[p] : delete_selected_row(p, i)
        \/ AcqCheck(p) /\ UNCHANGED <<unit, storeVars>>
        \/ AcqCreate(p) /\ UNCHANGED <<unit, storeVars>>
        \/ SaveLockFail(p)
        \/ SaveRefresh(p)
        \/ SaveWrite(p)
        \/ SaveFinally(p)

KeySpec == KeyInit /\ [][KeyNext]_vars

\* C23: the application writes no record whose key is not a whole number,
\* and none whose key it made 0: starting from keys 7 and 10, with 0 never
\* typed, every stored key is a whole number above 0
C23_NoMalformedKey ==
    file.exists => \A i \in DOMAIN file.rows :
                      /\ file.rows[i][KeyCol].t = "int"
                      /\ file.rows[i][KeyCol].n > 0

\* the ways a save fails that a handler reports: the lock was not
\* acquired, or every write attempt was refused
SaveFailures == {"lock_failed", "write_error"}

\* the keys of the records of a table, ascending, as the view shows them
RecordsOf(d) == TreeOf(d)

\* C24: when the last handler of the only running application ended with a
\* failed save, the in-memory table and the displayed rows hold exactly the
\* records of the backing file
C24_ConsistentAfterFailure ==
    (pc[1] = "idle" /\ outcome[1] \in SaveFailures) =>
        /\ RecordsOf(df[1]) = RecordsOf(load_excel(file, COLUMNS[1]))
        /\ tree[1] = RecordsOf(load_excel(file, COLUMNS[1]))

\* C24, for Add and Edit: the step in which their save fails leaves the
\* in-memory table and the displayed rows as they were
C24_AddEditFailure ==
    [][\A p \in KeyProcs :
          (/\ call[p] # NoCall
           /\ call[p].op \in {"add", "edit"}
           /\ pc'[p] = "idle"
           /\ outcome'[p] \in SaveFailures)
          => (df'[p] = df[p] /\ tree'[p] = tree[p] /\ file' = file)]_vars

\* an Add or an Edit ended with a failed save
C24_AddEditFailed ==
    /\ pc[1] = "idle"
    /\ outcome[1] \in SaveFailures
    /\ RecordsOf(df[1]) = RecordsOf(load_excel(file, COLUMNS[1]))

(* ------------------------------------------------------------------ *)
(* The configured backing file: save_settings and what refers to the path *)
(* ------------------------------------------------------------------ *)
\* handlers and external writes in one run of ConfigSpec
MaxConfigOps == 3

\* the path the application starts with and the one the user moves to
StartPath == "old"
Paths == {StartPath, "new"}

\* the keys the files of ConfigSpec hold; a file is the set of its keys, an
\* absent file reads as the empty table
ConfigKeys == {1, 2}

\* LOCK_FILE = EXCEL_PATH + ".lock"
LockOf(path) == <<path, ".lock">>

\* the name a definition evaluated at import time keeps: the value
\* EXCEL_PATH had then
BoundAtImport(now, atImport) == atImport

\* config: EXCEL_PATH, the global; path_default, the default of the
\* parameter path of save_excel_with_lock; LOCK_FILE, the global of line 278;
\* filepath, the path the ExcelHandler compares events with; files, the
\* content at every path; df and shown, the in-memory table and the view.
\* History: last, the paths the last operation used
ConfigStart(content) ==
    [EXCEL_PATH |-> StartPath,
     path_default |-> StartPath,
     LOCK_FILE |-> LockOf(StartPath),
     filepath |-> StartPath,
     files |-> [q \in Paths |-> IF q = StartPath THEN content ELSE {}],
     df |-> content,
     shown |-> content,
     last |-> [op |-> "start", configured |-> StartPath, read |-> StartPath,
               written |-> StartPath, lock |-> LockOf(StartPath),
               watched |-> StartPath],
     opsLeft |-> MaxConfigOps]

ConfigUnchanged == UNCHANGED <<lockVars, storeVars, ld, watch, flt, doc, schema>>

\* save_settings(win, excel_var, pdf_var, lang_var) with the path excel_var:
\* the global is assigned, the table is loaded from it and shown
config_save_settings(excel_var) ==
    /\ ConfigUnchanged
    /\ config.opsLeft > 0
    /\ LET loaded == config.files[excel_var] IN
       config' = [config EXCEPT
                    !.EXCEL_PATH = excel_var,
                    !.df = loaded,
                    !.shown = loaded,
                    !.last = [op |-> "settings", configured |-> excel_var,
                              read |-> excel_var,
                              written |-> BoundAtImport(excel_var, config.path_default),
                              lock |-> BoundAtImport(LockOf(excel_var), config.LOCK_FILE),
                              watched |-> BoundAtImport(excel_var, config.filepath)],
                    !.opsLeft = @ - 1]

\* save_entry for the key k: the latest table is read from EXCEL_PATH, the
\* record is appended and save_excel_with_lock(latest_df) writes it, to its
\* parameter path, under the sentinel LOCK_FILE
config_save_entry(k) ==
    /\ ConfigUnchanged
    /\ config.opsLeft > 0
    /\ LET latest_df == config.files[config.EXCEL_PATH]
           path == BoundAtImport(config.EXCEL_PATH, config.path_default)
           lock == BoundAtImport(LockOf(config.EXCEL_PATH), config.LOCK_FILE)
       IN
       /\ k \notin latest_df
       /\ config' = [config EXCEPT
                       !.files[path] = latest_df \cup {k},
                       !.df = latest_df \cup {k},
                       !.shown = latest_df \cup {k},
                       !.last = [op |-> "save", configured |-> config.EXCEL_PATH,
                                 read |-> config.EXCEL_PATH, written |-> path,
                                 lock |-> lock,
                                 watched |-> BoundAtImport(config.EXCEL_PATH, config.filepath)],
                       !.opsLeft = @ - 1]

\* another program writes the file at path; on_any_event reacts when the
\* event's path is the handler's filepath, and shows safe_load_excel(),
\* which reads EXCEL_PATH
config_external_write(path, content) ==
    /\ ConfigUnchanged
    /\ config.opsLeft > 0
    /\ content # config.files[path]
    /\ LET files == [config.files EXCEPT ![path] = content]
           watched == BoundAtImport(config.EXCEL_PATH, config.filepath)
       IN
       config' = [config EXCEPT
                    !.files = files,
                    !.shown = IF path = watched THEN files[config.EXCEL_PATH] ELSE @,
                    !.last = [op |-> "event", configured |-> config.EXCEL_PATH,
                              read |-> config.EXCEL_PATH,
                              written |-> config.last.written,
                              lock |-> config.last.lock,
                              watched |-> watched],
                    !.opsLeft = @ - 1]

ConfigInit ==
    /\ lockFile = 0
    /\ pc = [p \in Procs |-> "idle"]
    /\ acq = [p \in Procs |-> NoAcq]
    /\ unit = NoUnit
    /\ file = NoFile
    /\ columnsFile = DefaultColumns
    /\ COLUMNS = [p \in Procs |-> DefaultColumns]
    /\ df = [p \in Procs |-> EmptyTable(DefaultColumns)]
    /\ tree = [p \in Procs |-> <<NoRecordFound>>]
    /\ call = [p \in Procs |-> NoCall]
    /\ outcome = [p \in Procs |-> "none"]
    /\ opsLeft = 0
    /\ ld = Unused
    /\ watch = Unused
    /\ flt = Unused
    /\ doc = Unused
    /\ schema = Unused
    /\ \E content \in SUBSET ConfigKeys : config = ConfigStart(content)

ConfigNext ==
    \/ \E excel_var \in Paths : config_save_settings(excel_var)
    \/ \E k \in ConfigKeys : config_save_entry(k)
    \/ \E path \in Paths, content \in SUBSET ConfigKeys : config_external_write(path, content)

ConfigSpec == ConfigInit /\ [][ConfigNext]_vars

\* C25: once save_settings has set the backing file's path, the save, the
\* lock sentinel and the watcher subscription of every operation refer to
\* the configured file, as its loads do
C25_RelocationConsistency ==
    /\ config.last.read = config.last.configured
    /\ config.last.written = config.last.configured
    /\ config.last.lock = LockOf(config.last.configured)
    /\ config.last.watched = config.last.configured

\* C25, the loads alone: every load reads the configured file, and
\* save_settings shows its content
C25_LoadsFollow ==
    /\ config.last.read = config.last.configured
    /\ config.last.op = "settings" => config.shown = config.files[config.EXCEL_PATH]

\* the backing file was moved and the table loaded from the new path
C25_Moved ==
    /\ config.last.op = "settings"
    /\ config.EXCEL_PATH # StartPath
    /\ config.files[config.EXCEL_PATH] # {}

(* ------------------------------------------------------------------ *)
(* Adds of two applications on one backing file (Spec)                  *)
(* ------------------------------------------------------------------ *)
\* the whole-number keys of the records a file holds
NumberKeys(f) ==
    IF ~f.exists THEN {}
    ELSE {ParseKey(f.rows[i][KeyCol]) : i \in DOMAIN f.rows} \ {-1}

\* the step in which the save of an Add of p writes the file
AddWrites(p) ==
    /\ pc[p] = "write"
    /\ pc'[p] = "finally"
    /\ call[p].op = "add"
    /\ call'[p].status = "ok"

\* C26: no lost add across applications: the write of a successful Add
\* keeps every record the file holds when it is written, so that the
\* records two applications add at overlapping times are both in the file
C26_NoLostAdd ==
    [][\A p \in Procs : AddWrites(p) => NumberKeys(file) \subseteq NumberKeys(file')]_vars

\* C26, for Adds that do not overlap: an Add that began on the file as it
\* is when the Add writes loses no record
C26_SequentialAdd ==
    [][\A p \in Procs : (AddWrites(p) /\ call[p].base = file)
                          => NumberKeys(file) \subseteq NumberKeys(file')]_vars

\* both applications have saved, and the file holds two records or more
C26_BothSaved ==
    /\ \A p \in Procs : pc[p] = "idle" /\ outcome[p] = "saved"
    /\ Cardinality(NumberKeys(file)) >= 2

(* ------------------------------------------------------------------ *)
(* The display and the filter state apply_filters leaves (FilterSpec)    *)
(* ------------------------------------------------------------------ *)
\* the filter state as it stands: the key entry and the selections the
\* checklists hold now
FilterStateNow == [key |-> flt.key, selected |-> flt.selected]

\* C27: after apply_filters has returned, the rows on display are exactly
\* the rows that satisfy the filter state as it stands after the call, with
\* the selections that are no longer offered dropped (calls that end
\* without exception, the placeholder of the key entry gone)
C27_ShownMatchesStateAfter ==
    (flt.calls /\ ~flt.raised /\ flt.F0.key # Placeholder) =>
        flt.shown = {l \in Range(flt.index) : Satisfies(l, FilterStateNow, "")}

\* C27, for the calls that drop no selection: the display is that of the
\* state after the call
C27_NothingDropped ==
    (flt.calls /\ ~flt.raised /\ flt.F0.key # Placeholder
       /\ flt.selected = flt.F0.selected) =>
        flt.shown = {l \in Range(flt.index) : Satisfies(l, FilterStateNow, "")}

\* a call that dropped no selection and shows some rows but not all
C27_SomeShown ==
    /\ flt.calls /\ ~flt.raised /\ flt.F0.key # Placeholder
    /\ flt.selected = flt.F0.selected
    /\ \E col \in Range(ChecklistColumns) : flt.selected[col] # {}
    /\ flt.shown # {}
    /\ flt.shown # Range(flt.index)

(* ------------------------------------------------------------------ *)
(* Whose document find_pdf returns (DocSpec)                             *)
(* ------------------------------------------------------------------ *)
\* the padded key in the name NewPdfName gave a document: the text between
\* the prefix and the first underscore
RECURSIVE UpToUnderscore(_)
UpToUnderscore(s) ==
    IF Len(s) = 0 \/ Head(s) = "_" THEN <<>> ELSE <<Head(s)>> \o UpToUnderscore(Tail(s))
StoredKey(f) == UpToUnderscore(SubSeq(f, Len(PrefixLower) + 1, Len(f)))

\* C28: document isolation: the path find_pdf(k) returns is that of a
\* document stored for the key k, never that of a document stored for
\* another key
C28_DocumentIsolation ==
    (doc.last.op = "find" /\ doc.last.result = "path") =>
        StoredKey(doc.last.path) = ZFill(doc.last.key, 3)

\* C28, for keys of one or two digits
C28_ShortKeys ==
    (doc.last.op = "find" /\ doc.last.result = "path" /\ Len(doc.last.key) <= 2) =>
        StoredKey(doc.last.path) = ZFill(doc.last.key, 3)

\* find_pdf found the document of key 1 among those of other keys
C28_FoundAmongOthers ==
    /\ doc.last.op = "find" /\ doc.last.result = "path"
    /\ doc.last.key = <<"1">>
    /\ Len(doc.listing) >= 2

(* ------------------------------------------------------------------ *)
(* RefreshSpec: external modifications, each followed by its event, and *)
(* the display in the end                                               *)
(* ------------------------------------------------------------------ *)
\* the modifications another application makes in one run
MaxModifications == 2

\* what the other application saves
ModifiedFiles ==
    {[exists |-> TRUE, cols |-> DefaultColumns, rows |-> <<InitRow(k)>>] :
        k \in {<<"7">>, <<"8">>}}

\* the event the observer raises for a modification of the backing file
ModifiedEvent == [is_directory |-> FALSE, name |-> BackingName]

\* watch.writes counts the modifications still to come and watch.left the
\* events still to deliver: an event is waiting when left exceeds writes
EventWaiting == watch.left > watch.writes

\* the observer's thread delivers the event of a modification: the reads of
\* the backing file and of columns.json succeed
Delivered ==
    /\ EventWaiting
    /\ on_any_event(ModifiedEvent, 0, "ok")

\* another application modifies the backing file
Modified == \E f \in ModifiedFiles : ExternalWrite(f, DefaultColumns)

RefreshInit ==
    /\ lockFile = 0
    /\ pc = [p \in Procs |-> "idle"]
    /\ acq = [p \in Procs |-> NoAcq]
    /\ unit = NoUnit
    /\ file \in InitFiles
    /\ columnsFile = DefaultColumns
    /\ COLUMNS = [p \in Procs |-> DefaultColumns]
    /\ df = [p \in Procs |-> load_excel(file, DefaultColumns)]
    /\ tree = [p \in Procs |-> TreeOf(df[p])]
    /\ call = [p \in Procs |-> NoCall]
    /\ outcome = [p \in Procs |-> "none"]
    /\ opsLeft = 0
    /\ ld = Unused
    /\ watch = [NoWatch EXCEPT !.left = MaxModifications, !.writes = MaxModifications]
    /\ flt = Unused
    /\ doc = Unused
    /\ schema = Unused
    /\ config = Unused

RefreshNext ==
    \/ Modified
    \/ Delivered
    \/ RunPosted
    \/ Tick

\* the observer's thread delivers every event it has, the main loop of the
\* UI runs every callback posted with after(0, ...), and time passes
RefreshSpec ==
    /\ RefreshInit
    /\ [][RefreshNext]_vars
    /\ WF_vars(Delivered)
    /\ WF_vars(RunPosted)
    /\ WF_vars(Tick)

\* the view shows the content of the backing file
ShowsFile == tree[1] = TreeOf(load_excel(file, COLUMNS[1]))

\* C29: eventual refresh: once the external modifications have stopped the
\* display eventually shows the final content of the backing file, and
\* goes on showing it; no modification is lost because its event came
\* within 2 seconds of the previous reaction
C29_EventualRefresh == <>[]ShowsFile

\* C29, for a single modification: the display eventually shows it
C29_SingleModification == <>[](watch.writes = MaxModifications - 1 => ShowsFile)

\* C29, safety: a modification whose event made the handler react is shown
\* once its callback has run
C29_ReactionShown ==
    (watch.reacted /\ EventWaiting = FALSE /\ Len(watch.posted) = 0) => ShowsFile

\* the event of a modification made the handler react and its callback ran
C29_Reacted ==
    /\ watch.reacted /\ ~EventWaiting /\ Len(watch.posted) = 0
    /\ watch.writes < MaxModifications

(* ------------------------------------------------------------------ *)
(* Keys of the stored records after Adds (KeySpec)                       *)
(* ------------------------------------------------------------------ *)
\* the keys of the stored records as a load reads them back
KeysReadBack(f) ==
    LET d == load_excel(f, DefaultColumns) IN
    [i \in DOMAIN d.rows |-> CellText(d.rows[i][KeyCol])]

\* C30: key uniqueness: starting from a file without duplicate keys, no two
\* stored records have the same key as read back, whatever the application
\* adds; an Add whose key exists, written with leading zeros or without,
\* is rejected
C30_KeyUniqueness ==
    LET keys == KeysReadBack(file) IN
    \A i, j \in DOMAIN keys : keys[i] = keys[j] => i = j

\* C30, for a key typed as the file holds it: the Add is rejected and the
\* file stays as it is
C30_SameTextRejected ==
    [][\A k \in TypedKeys, r \in RefInputs :
          (/\ save_entry(1, k, r)
           /\ \E i \in DOMAIN KeysReadBack(file) : KeysReadBack(file)[i] = k)
          => (outcome'[1] = "duplicate_error" /\ pc'[1] = "idle" /\ file' = file)]_vars

\* an Add was rejected as a duplicate
C30_DuplicateRejected == outcome[1] = "duplicate_error" /\ file.exists

====
